---- MODULE Spec2Model ----
(***************************************************************************)
(* A model of the rust_3d_course engine core: the vector/matrix library,   *)
(* plane clipping, the scene graph of attachable objects and the camera    *)
(* pipeline (init, project, sorted, clear).                                *)
(*                                                                         *)
(* Numbers.  The program computes in f64.  The model computes in exact     *)
(* rational arithmetic: a number is a pair <<n, d>> in lowest terms with   *)
(* d > 0.  Rounding is therefore not modelled.  Angles are counted in      *)
(* quarter turns (1 = PI/2), whose sine and cosine are 0, 1 or -1.         *)
(* A unit vector v/|v| is in general irrational; it is represented by the  *)
(* primitive integer vector of the same direction (see normalized).        *)
(***************************************************************************)
EXTENDS Integers, Sequences, FiniteSets, TLC

(***************************************************************************)
(* Rational numbers                                                        *)
(***************************************************************************)
\* The element of the one-element set S.  Once({e(x) : x \in {a}}) is e(a)
\* with a evaluated once, however often e uses x: the operators that use it
\* take their arguments by value, as the Rust functions do.
Once(S) == CHOOSE y \in S : TRUE

Abs(n) == IF n < 0 THEN -n ELSE n

RECURSIVE GCD(_, _)
GCD(a, b) == IF b = 0 THEN a ELSE GCD(b, a % b)

\* lowest terms, positive denominator
RNorm(n, d) ==
    IF d = 1 THEN <<n, 1>>
    ELSE LET g == GCD(Abs(n), Abs(d))
             s == IF d < 0 THEN -1 ELSE 1
         IN  <<(s * n) \div g, (s * d) \div g>>

R(n) == <<n, 1>>
Zero == <<0, 1>>
One == <<1, 1>>

RAdd(a, b) ==
    IF a[2] = 1 /\ b[2] = 1 THEN <<a[1] + b[1], 1>>
    ELSE RNorm(a[1] * b[2] + b[1] * a[2], a[2] * b[2])
RNeg(a) == <<-a[1], a[2]>>
RSub(a, b) == RAdd(a, RNeg(b))
RMul(a, b) ==
    IF a[2] = 1 /\ b[2] = 1 THEN <<a[1] * b[1], 1>>
    ELSE RNorm(a[1] * b[1], a[2] * b[2])
\* f64 division; the model never divides by zero (the inputs are chosen so)
RDiv(a, b) == RNorm(a[1] * b[2], a[2] * b[1])
RLt(a, b) == a[1] * b[2] < b[1] * a[2]
RLe(a, b) == a[1] * b[2] <= b[1] * a[2]
RGe(a, b) == RLe(b, a)
RGt(a, b) == RLt(b, a)
RAbs(a) == <<Abs(a[1]), a[2]>>

\* x.abs() > f64::EPSILON.  EPSILON is 2^-52; every non-zero magnitude the
\* model can produce is far above it, so the test is "x is not zero".
AboveEpsilon(x) == x[1] # 0

(***************************************************************************)
(* Vec3d, Vec4d                                                            *)
(***************************************************************************)
Vec3d(x, y, z) == <<x, y, z>>
Vec4d(x, y, z, w) == <<x, y, z, w>>
V3(x, y, z) == <<R(x), R(y), R(z)>>
V4(x, y, z, w) == <<R(x), R(y), R(z), R(w)>>
ZeroVec == V3(0, 0, 0)

VAdd(a, b) == <<RAdd(a[1], b[1]), RAdd(a[2], b[2]), RAdd(a[3], b[3])>>
VSub(a, b) == <<RSub(a[1], b[1]), RSub(a[2], b[2]), RSub(a[3], b[3])>>
VNeg(a) == <<RNeg(a[1]), RNeg(a[2]), RNeg(a[3])>>
VScale(a, k) == <<RMul(a[1], k), RMul(a[2], k), RMul(a[3], k)>>
dot(a, b) == RAdd(RAdd(RMul(a[1], b[1]), RMul(a[2], b[2])), RMul(a[3], b[3]))
cross(a, b) ==
    <<RSub(RMul(a[2], b[3]), RMul(b[2], a[3])),
      RSub(RMul(a[3], b[1]), RMul(b[3], a[1])),
      RSub(RMul(a[1], b[2]), RMul(b[1], a[2]))>>
sqr_abs(a) == dot(a, a)
from_vec4d(v) == <<v[1], v[2], v[3]>>
make_point_4d(v) == <<v[1], v[2], v[3], One>>

V4Sub(a, b) == <<RSub(a[1], b[1]), RSub(a[2], b[2]), RSub(a[3], b[3]), RSub(a[4], b[4])>>
\* Vec4d / f64: the caller has checked the divisor (see DivPanics)
V4Div(a, k) == <<RDiv(a[1], k), RDiv(a[2], k), RDiv(a[3], k), RDiv(a[4], k)>>
\* the Div operators panic ("Trying to div by 0") unless |rhs| > EPSILON
DivPanics(k) == ~AboveEpsilon(k)

\* The unit vector of v's direction, represented by the primitive integer
\* vector pointing the same way (v scaled by a positive number); the zero
\* vector when |v| is not above EPSILON.  For an axis-parallel v this is the
\* unit vector itself.
normalized(v) ==
    IF ~AboveEpsilon(sqr_abs(v)) THEN ZeroVec
    ELSE LET a == (v[1][1] * v[2][2]) * v[3][2]
             b == (v[2][1] * v[1][2]) * v[3][2]
             c == (v[3][1] * v[1][2]) * v[2][2]
             g == GCD(GCD(Abs(a), Abs(b)), Abs(c))
         IN  <<R(a \div g), R(b \div g), R(c \div g)>>

(***************************************************************************)
(* Matrix4x4: a tuple of four rows                                         *)
(***************************************************************************)
MX(m) == <<m[1][1], m[2][1], m[3][1]>>
MY(m) == <<m[1][2], m[2][2], m[3][2]>>
MZ(m) == <<m[1][3], m[2][3], m[3][3]>>
MW(m) == <<m[1][4], m[2][4], m[3][4]>>

identity ==
    <<<<One, Zero, Zero, Zero>>,
      <<Zero, One, Zero, Zero>>,
      <<Zero, Zero, One, Zero>>,
      <<Zero, Zero, Zero, One>>>>

scale(v) ==
    <<<<v[1], Zero, Zero, Zero>>,
      <<Zero, v[2], Zero, Zero>>,
      <<Zero, Zero, v[3], Zero>>,
      <<Zero, Zero, Zero, One>>>>

translation(v) ==
    <<<<One, Zero, Zero, v[1]>>,
      <<Zero, One, Zero, v[2]>>,
      <<Zero, Zero, One, v[3]>>,
      <<Zero, Zero, Zero, One>>>>

MulEntry(a, b, i, j) ==
    RAdd(RAdd(RAdd(RMul(a[i][1], b[1][j]), RMul(a[i][2], b[2][j])),
              RMul(a[i][3], b[3][j])), RMul(a[i][4], b[4][j]))
MulRow(a, b, i) ==
    <<MulEntry(a, b, i, 1), MulEntry(a, b, i, 2), MulEntry(a, b, i, 3), MulEntry(a, b, i, 4)>>
MatMul(a, b) == <<MulRow(a, b, 1), MulRow(a, b, 2), MulRow(a, b, 3), MulRow(a, b, 4)>>

MatVecEntry(m, v, i) ==
    RAdd(RAdd(RAdd(RMul(m[i][1], v[1]), RMul(m[i][2], v[2])),
              RMul(m[i][3], v[3])), RMul(m[i][4], v[4]))
MatVec4(m, v) ==
    <<MatVecEntry(m, v, 1), MatVecEntry(m, v, 2), MatVecEntry(m, v, 3), MatVecEntry(m, v, 4)>>

\* sine and cosine of q quarter turns
Cos(q) == LET r == q % 4 IN IF r = 0 THEN One ELSE IF r = 2 THEN R(-1) ELSE Zero
Sin(q) == LET r == q % 4 IN IF r = 1 THEN One ELSE IF r = 3 THEN R(-1) ELSE Zero

rotation_x(rx) ==
    <<<<One, Zero, Zero, Zero>>,
      <<Zero, Cos(rx), RNeg(Sin(rx)), Zero>>,
      <<Zero, Sin(rx), Cos(rx), Zero>>,
      <<Zero, Zero, Zero, One>>>>
rotation_y(ry) ==
    <<<<Cos(ry), Zero, Sin(ry), Zero>>,
      <<Zero, One, Zero, Zero>>,
      <<RNeg(Sin(ry)), Zero, Cos(ry), Zero>>,
      <<Zero, Zero, Zero, One>>>>
rotation_z(rz) ==
    <<<<Cos(rz), RNeg(Sin(rz)), Zero, Zero>>,
      <<Sin(rz), Cos(rz), Zero, Zero>>,
      <<Zero, Zero, One, Zero>>,
      <<Zero, Zero, Zero, One>>>>
\* r is a triple of quarter-turn counts
rotation(r) == MatMul(MatMul(rotation_x(r[1]), rotation_y(r[2])), rotation_z(r[3]))

\* Rodrigues' formula about the unit vector of v, rv in quarter turns; exact
\* when the unit vector is rational (an axis-parallel v)
rotation_around_vec(v, rv) ==
    LET nv == normalized(v)
        c == Cos(rv)
        s == Sin(rv)
        k == RSub(One, c)
    IN  <<<<RAdd(c, RMul(k, RMul(nv[1], nv[1]))),
            RSub(RMul(k, RMul(nv[1], nv[2])), RMul(s, nv[3])),
            RAdd(RMul(k, RMul(nv[1], nv[3])), RMul(s, nv[2])), Zero>>,
          <<RAdd(RMul(k, RMul(nv[1], nv[2])), RMul(s, nv[3])),
            RAdd(c, RMul(k, RMul(nv[2], nv[2]))),
            RSub(RMul(k, RMul(nv[2], nv[3])), RMul(s, nv[1])), Zero>>,
          <<RSub(RMul(k, RMul(nv[3], nv[1])), RMul(s, nv[2])),
            RAdd(RMul(k, RMul(nv[3], nv[2])), RMul(s, nv[1])),
            RAdd(c, RMul(k, RMul(nv[3], nv[3]))), Zero>>,
          <<Zero, Zero, Zero, One>>>>

\* tan(PI * fov * 0.5 / 180) for the field of view the model uses
TanHalfFov(fov) == CASE fov = 90 -> One

\* the projection matrix with [3][3] cleared, so that w is the depth z
projection_w_is_depth(fov, aspect, znear, zfar) ==
    <<<<RDiv(One, RMul(TanHalfFov(fov), aspect)), Zero, Zero, Zero>>,
      <<Zero, RDiv(One, TanHalfFov(fov)), Zero, Zero>>,
      <<Zero, Zero, RDiv(zfar, RSub(zfar, znear)),
        RDiv(RMul(RNeg(zfar), znear), RSub(zfar, znear))>>,
      <<Zero, Zero, One, Zero>>>>

projection(fov, aspect, znear, zfar) ==
    <<<<RDiv(One, RMul(TanHalfFov(fov), aspect)), Zero, Zero, Zero>>,
      <<Zero, RDiv(One, TanHalfFov(fov)), Zero, Zero>>,
      <<Zero, Zero, RDiv(zfar, RSub(zfar, znear)),
        RDiv(RMul(RNeg(zfar), znear), RSub(zfar, znear))>>,
      <<Zero, Zero, One, One>>>>

screen_space(width, height) ==
    <<<<RMul(<<-1, 2>>, R(width)), Zero, Zero, RMul(<<1, 2>>, R(width))>>,
      <<Zero, RMul(<<-1, 2>>, R(height)), Zero, RMul(<<1, 2>>, R(height))>>,
      <<Zero, Zero, One, Zero>>,
      <<Zero, Zero, Zero, One>>>>

\* a view matrix that takes no account of the eye point
view_at_origin(tranform_matrix) ==
    <<<<tranform_matrix[1][1], tranform_matrix[2][1], tranform_matrix[3][1], Zero>>,
      <<tranform_matrix[1][2], tranform_matrix[2][2], tranform_matrix[3][2], Zero>>,
      <<tranform_matrix[1][3], tranform_matrix[2][3], tranform_matrix[3][3], Zero>>,
      <<Zero, Zero, Zero, One>>>>

ViewRow(axis, eye) ==
    LET q == sqr_abs(axis)
    IN  <<RDiv(axis[1], q), RDiv(axis[2], q), RDiv(axis[3], q),
          RDiv(RNeg(dot(eye, axis)), q)>>
view(m) ==
    <<ViewRow(MX(m), MW(m)), ViewRow(MY(m), MW(m)), ViewRow(MZ(m), MW(m)),
      <<Zero, Zero, Zero, One>>>>

(***************************************************************************)
(* Triangle: [color, points, normal]                                       *)
(***************************************************************************)
calculate_normal(points) ==
    Once({IF AboveEpsilon(sqr_abs(c)) THEN normalized(c) ELSE ZeroVec :
          c \in {cross(from_vec4d(V4Sub(points[2], points[1])),
                        from_vec4d(V4Sub(points[3], points[1])))}})

Triangle(color, p1, p2, p3) ==
    Once({[color |-> color, points |-> arr, normal |-> calculate_normal(arr)] :
          arr \in {<<p1, p2, p3>>}})

\* &Triangle * &Matrix4x4
TriMul(t, m) ==
    Once({Triangle(self.color, MatVec4(rhs, self.points[1]), MatVec4(rhs, self.points[2]),
                   MatVec4(rhs, self.points[3])) : self \in {t}, rhs \in {m}})

(***************************************************************************)
(* Plane: [normal, point].  The stored normal stands for a unit vector, so *)
(* distance is the program's distance times the (positive) length of the   *)
(* stored vector: its sign, and the ratio intersection computes, are the   *)
(* program's.                                                              *)
(***************************************************************************)
Plane(normal, point) == [normal |-> normalized(normal), point |-> point]

distance(plane, point) ==
    Once({RSub(dot(p, self.normal), dot(self.point, self.normal)) :
          self \in {plane}, p \in {point}})

\* an intersection that returns the far end of the edge
intersection_at_end(plane, start, end) == <<end, One>>

\* returns <<res, k>>
intersection(plane, start, end) ==
    Once({Once({<<VAdd(a, VScale(VSub(b, a), k)), k>> :
                k \in {RDiv(RSub(dot(a, self.normal), dot(self.point, self.normal)),
                             RSub(dot(a, self.normal), dot(b, self.normal)))}}) :
          self \in {plane}, a \in {start}, b \in {end}})

IsInsideStrict(plane, p) == RGt(distance(plane, p), Zero)
\* distances[i] >= 0.0
IsInside(plane, p) == RGe(distance(plane, p), Zero)

\* the vertices of tri, in index order, that are inside (or outside) the plane
PointsWhere(plane, tri, inside) ==
    Once({LET P(i) == from_vec4d(t.points[i])
              Pick(i) == IF IsInside(self, P(i)) = inside THEN <<P(i)>> ELSE <<>>
          IN  Pick(1) \o Pick(2) \o Pick(3) : self \in {plane}, t \in {tri}})

clip(plane, tri) ==
    Once({Once({
        IF Len(inside_points) = 1 THEN
            LET intersect1 == intersection(self, inside_points[1], outside_points[1])
                intersect2 == intersection(self, inside_points[1], outside_points[2])
            IN  <<Triangle(t.color, make_point_4d(inside_points[1]),
                           make_point_4d(intersect1[1]), make_point_4d(intersect2[1]))>>
        ELSE IF Len(inside_points) = 2 THEN
            Once({<<Triangle(t.color, make_point_4d(inside_points[1]),
                             make_point_4d(intersect1[1]), make_point_4d(inside_points[2])),
                    Triangle(t.color, make_point_4d(intersect1[1]),
                             make_point_4d(intersect2[1]), make_point_4d(inside_points[2]))>> :
                  intersect1 \in {intersection(self, inside_points[1], outside_points[1])},
                  intersect2 \in {intersection(self, inside_points[2], outside_points[1])}})
        ELSE IF Len(inside_points) = 3 THEN <<t>>
        ELSE <<>> :
            inside_points \in {PointsWhere(self, t, TRUE)},
            outside_points \in {PointsWhere(self, t, FALSE)}}) :
          self \in {plane}, t \in {tri}})

\* the <<start, end>> of the calls clip makes to intersection, in order
intersection_args(inside_points, outside_points) ==
    IF Len(inside_points) = 1
    THEN <<<<inside_points[1], outside_points[1]>>, <<inside_points[1], outside_points[2]>>>>
    ELSE IF Len(inside_points) = 2
    THEN <<<<inside_points[1], outside_points[1]>>, <<inside_points[2], outside_points[1]>>>>
    ELSE <<>>

(***************************************************************************)
(* Objects.  An object lives in an Rc<RefCell<dyn Object>>; a parent holds *)
(* rc::Weak references to its children, keyed by nametag.  An object is    *)
(* known by the number of its allocation; a Weak upgrades iff the object   *)
(* it was made from is still live.                                         *)
(***************************************************************************)
\* the number of objects a run creates
MaxObjects == 3
\* the number of translate / rotate / scale / transform calls of a run
MaxMoves == 2
ObjIds == 1..MaxObjects
Tags == {"a", "b", "c"}
\* the order in which the model walks a HashMap's entries (the program's order
\* is arbitrary; what the walks compute does not depend on it)
TagOrder == <<"a", "b", "c">>
NoAttachments == [t \in Tags |-> 0]

\* ObjectStruct::new
ObjectStruct(nametag) ==
    [st |-> "live", nametag |-> nametag, transform |-> identity,
     position |-> ZeroVec, angle |-> <<0, 0, 0>>,
     angle_left_up_look_at |-> <<0, 0, 0>>, attached_objects |-> NoAttachments]
\* an object not created yet, and one that has been dropped
Unborn == [ObjectStruct("") EXCEPT !.st = "none"]
Dropped == [ObjectStruct("") EXCEPT !.st = "dead"]

Live(os) == {x \in ObjIds : os[x].st = "live"}
\* rc::Weak::upgrade succeeds
UpgradesAlways(os, c) == c # 0
Upgrades(os, c) == c # 0 /\ os[c].st = "live"

\* A call in progress: the object table and the panic raised, if any.
World(os) == [objs |-> os, fatal |-> "none"]
Panic(w, msg) == [w EXCEPT !.fatal = msg]

\* Object::translate.  held: the objects whose RefCell is mutably borrowed
\* further up the call stack (borrow_mut on one of them panics).
RECURSIVE translate(_, _, _, _), translate_children(_, _, _, _, _)
translate(w, x, dv, held) ==
    IF w.fatal # "none" THEN w
    ELSE IF x \in held THEN Panic(w, "already borrowed: BorrowMutError")
    ELSE translate_children(
             [w EXCEPT !.objs[x].position = VAdd(@, dv)], x, dv, held \cup {x}, 1)
translate_children(w, x, dv, held, i) ==
    IF i > Len(TagOrder) \/ w.fatal # "none" THEN w
    ELSE LET c == w.objs[x].attached_objects[TagOrder[i]]
         IN  translate_children(
                 IF Upgrades(w.objs, c) THEN translate(w, c, dv, held) ELSE w,
                 x, dv, held, i + 1)

\* a transform_relative_point that stops after its second statement: the
\* translation stays in the transform
transform_relative_point_keeps_w(w, x, point, matrix, held) ==
    [w EXCEPT !.objs[x].transform =
        MatMul(matrix, MatMul(translation(VSub(w.objs[x].position, point)), matrix))]

\* Object::transform_relative_point
RECURSIVE transform_relative_point(_, _, _, _, _), trp_children(_, _, _, _, _, _)
transform_relative_point(w, x, point, matrix, held) ==
    IF w.fatal # "none" THEN w
    ELSE IF x \in held THEN Panic(w, "already borrowed: BorrowMutError")
    ELSE LET o == w.objs[x]
             t1 == MatMul(translation(VSub(o.position, point)), matrix)
             t2 == MatMul(matrix, t1)
             pos == VAdd(MW(t2), point)
             t3 == MatMul(translation(VNeg(MW(t2))), t2)
         IN  trp_children(
                 [w EXCEPT !.objs[x].transform = t3, !.objs[x].position = pos],
                 x, point, matrix, held \cup {x}, 1)
trp_children(w, x, point, matrix, held, i) ==
    IF i > Len(TagOrder) \/ w.fatal # "none" THEN w
    ELSE LET c == w.objs[x].attached_objects[TagOrder[i]]
         IN  trp_children(
                 IF Upgrades(w.objs, c)
                     THEN transform_relative_point(w, c, point, matrix, held)
                     ELSE w,
                 x, point, matrix, held, i + 1)

\* Object::transform
transform(w, x, matrix) ==
    LET o == w.objs[x]
        w1 == [w EXCEPT !.objs[x].transform = MatMul(o.transform, matrix)]
    IN  trp_children(w1, x, o.position, matrix, {x}, 1)

\* Object::scale
scale_object(w, x, s) == transform(w, x, scale(s))

\* a rotate that does not keep track of the angle
rotate_untracked(w, x, r) == transform(w, x, rotation(r))

\* Object::rotate (r in quarter turns)
rotate(w, x, r) ==
    LET a == w.objs[x].angle
    IN  transform([w EXCEPT !.objs[x].angle = <<a[1] + r[1], a[2] + r[2], a[3] + r[3]>>],
                  x, rotation(r))

\* Object::left, Object::up, Object::look_at
left(o) == normalized(MX(o.transform))
up(o) == normalized(MY(o.transform))
look_at(o) == normalized(MZ(o.transform))

\* Object::rotate_around_vec
rotate_around_vec(w, x, v, rv) == transform(w, x, rotation_around_vec(v, rv))

\* Object::rotate_relative_point
rotate_relative_point(w, x, s, r) ==
    LET a == w.objs[x].angle
    IN  transform_relative_point(
            [w EXCEPT !.objs[x].angle = <<a[1] + r[1], a[2] + r[2], a[3] + r[3]>>],
            x, s, rotation(r), {})

\* Object::rotate_left, Object::rotate_up, Object::rotate_look_at
rotate_left(w, x, rl) ==
    rotate_around_vec([w EXCEPT !.objs[x].angle_left_up_look_at[1] = @ + rl],
                      x, left(w.objs[x]), rl)
rotate_up(w, x, ru) ==
    rotate_around_vec([w EXCEPT !.objs[x].angle_left_up_look_at[2] = @ + ru],
                      x, up(w.objs[x]), ru)
rotate_look_at(w, x, rla) ==
    rotate_around_vec([w EXCEPT !.objs[x].angle_left_up_look_at[3] = @ + rla],
                      x, look_at(w.objs[x]), rla)

\* Object::rotate_to_angle
rotate_to_angle(w, x, angle) ==
    LET a == w.objs[x].angle
    IN  rotate(w, x, <<angle[1] - a[1], angle[2] - a[2], angle[3] - a[3]>>)

\* Object::attached: the id of the live object attached under tag, or 0 (None)
attached(os, x, tag) ==
    LET c == os[x].attached_objects[tag]
    IN  IF Upgrades(os, c) THEN c ELSE 0

\* a check that looks at the receiver's own entries only
check_if_attached_own(os, x, tag, busy, path) ==
    IF os[x].attached_objects[tag] # 0 THEN "yes" ELSE "no"

\* Object::check_if_attached: "yes", "no", or "fatal" when the walk cannot
\* return: it meets the object that attach holds mutably borrowed (busy), or
\* an object already on its own path (it would recurse without end).
RECURSIVE check_if_attached(_, _, _, _, _), check_entries(_, _, _, _, _, _)
check_if_attached(os, x, tag, busy, path) ==
    check_entries(os, x, tag, busy, path \cup {x}, 1)
check_entries(os, x, tag, busy, path, i) ==
    IF i > Len(TagOrder) THEN "no"
    ELSE LET c == os[x].attached_objects[TagOrder[i]]
         IN  IF c # 0 /\ TagOrder[i] = tag THEN "yes"
             ELSE IF ~Upgrades(os, c) THEN check_entries(os, x, tag, busy, path, i + 1)
             ELSE IF c \in busy \/ c \in path THEN "fatal"
             ELSE LET r == check_if_attached(os, c, tag, busy, path)
                  IN  IF r = "no" THEN check_entries(os, x, tag, busy, path, i + 1)
                      ELSE r

\* an attach that does not look for the receiver below the child
attach_unchecked(w, x, obj) ==
    IF x = obj THEN Panic(w, "already mutably borrowed: BorrowError")
    ELSE IF w.objs[x].nametag = w.objs[obj].nametag
        THEN Panic(w, "Object::attach: You cannot attach object to itself")
    ELSE [w EXCEPT !.objs[x].attached_objects[w.objs[obj].nametag] = obj]

\* Object::attach, called on x with child obj
attach(w, x, obj) ==
    IF x = obj THEN Panic(w, "already mutably borrowed: BorrowError")
    ELSE IF w.objs[x].nametag = w.objs[obj].nametag
        THEN Panic(w, "Object::attach: You cannot attach object to itself")
    ELSE LET r == check_if_attached(w.objs, obj, w.objs[x].nametag, {x}, {})
         IN  IF r = "no"
                 THEN [w EXCEPT !.objs[x].attached_objects[w.objs[obj].nametag] = obj]
             ELSE IF r = "yes"
                 THEN Panic(w, "Object::attach: You tried to create infinite recursive call chains")
             ELSE Panic(w, "already mutably borrowed: BorrowError")

\* an unattach that removes nothing
unattach_nothing(w, x, tag) == w

\* Object::unattach
unattach(w, x, tag) == [w EXCEPT !.objs[x].attached_objects[tag] = 0]

\* Object::model, Object::inv_model
model(o) == MatMul(translation(o.position), o.transform)
inv_model(o) == view(model(o))

(***************************************************************************)
(* Cube: the sample mesh.  [color, triangles, visible]                     *)
(***************************************************************************)
\* the corners of the twelve triangles Cube::new pushes, in its order
UnitCube ==
    <<<<V4(0, 0, 0, 1), V4(0, 1, 0, 1), V4(1, 1, 0, 1)>>,
      <<V4(0, 0, 0, 1), V4(1, 1, 0, 1), V4(1, 0, 0, 1)>>,
      <<V4(1, 0, 0, 1), V4(1, 1, 0, 1), V4(1, 1, 1, 1)>>,
      <<V4(1, 0, 0, 1), V4(1, 1, 1, 1), V4(1, 0, 1, 1)>>,
      <<V4(1, 0, 1, 1), V4(1, 1, 1, 1), V4(0, 1, 1, 1)>>,
      <<V4(1, 0, 1, 1), V4(0, 1, 1, 1), V4(0, 0, 1, 1)>>,
      <<V4(0, 0, 1, 1), V4(0, 1, 1, 1), V4(0, 1, 0, 1)>>,
      <<V4(0, 0, 1, 1), V4(0, 1, 0, 1), V4(0, 0, 0, 1)>>,
      <<V4(0, 1, 0, 1), V4(0, 1, 1, 1), V4(1, 1, 1, 1)>>,
      <<V4(0, 1, 0, 1), V4(1, 1, 1, 1), V4(1, 1, 0, 1)>>,
      <<V4(1, 0, 1, 1), V4(0, 0, 1, 1), V4(0, 0, 0, 1)>>,
      <<V4(1, 0, 1, 1), V4(0, 0, 0, 1), V4(1, 0, 0, 1)>>>>

\* a cube that lacks its last triangle
CubeOpen(size, color) ==
    LET m == MatMul(scale(<<size, size, size>>), translation(<<<<-1, 2>>, <<-1, 2>>, <<-1, 2>>>>))
    IN  [color |-> color, visible |-> TRUE,
         triangles |-> [i \in 1..(Len(UnitCube) - 1) |->
             TriMul(Triangle(color, UnitCube[i][1], UnitCube[i][2], UnitCube[i][3]), m)]]

\* Cube::new, with MulAssign<&Matrix4x4> for Cube
Cube(size, color) ==
    LET m == MatMul(scale(<<size, size, size>>), translation(<<<<-1, 2>>, <<-1, 2>>, <<-1, 2>>>>))
    IN  [color |-> color, visible |-> TRUE,
         triangles |-> [i \in 1..Len(UnitCube) |->
             TriMul(Triangle(color, UnitCube[i][1], UnitCube[i][2], UnitCube[i][3]), m)]]

(***************************************************************************)
(* MyCamera: [triangles, clip_planes, aspect, sp] beside its ObjectStruct  *)
(***************************************************************************)
\* MyCamera::new
MyCamera == [triangles |-> <<>>, clip_planes |-> <<>>, aspect |-> Zero, sp |-> identity]

\* MyCamera::init.  (-cos t2, 0, sin t2) with t2 = atan(aspect * tan t1) has
\* the direction of (-1, 0, aspect * tan t1), and (0, cos t1, sin t1) that of
\* (0, 1, tan t1).
init(c, width, height, fov, znear, zfar) ==
    LET a == RDiv(R(width), R(height))
        p == projection(fov, a, znear, zfar)
        s == screen_space(width, height)
        tan1 == TanHalfFov(fov)
        tan2 == RMul(a, tan1)
    IN  [c EXCEPT
            !.aspect = a,
            !.sp = MatMul(s, p),
            !.clip_planes = @ \o
                <<Plane(V3(0, 0, 1), <<Zero, Zero, znear>>),
                  Plane(V3(0, 0, -1), <<Zero, Zero, zfar>>),
                  Plane(<<R(-1), Zero, tan2>>, ZeroVec),
                  Plane(<<One, Zero, tan2>>, ZeroVec),
                  Plane(<<Zero, One, tan1>>, ZeroVec),
                  Plane(<<Zero, R(-1), tan1>>, ZeroVec)>>]

\* the comparator's key: the three z values sorted, then added
SortedZ(t) ==
    Once({LET lo(x, y) == IF RLe(x, y) THEN x ELSE y
              hi(x, y) == IF RLe(x, y) THEN y ELSE x
          IN  <<lo(lo(a, b), d), hi(lo(a, b), lo(hi(a, b), d)), hi(hi(a, b), d)>> :
          a \in {t.points[1][3]}, b \in {t.points[2][3]}, d \in {t.points[3][3]}})
ZKey(t) == Once({RAdd(RAdd(v[1], v[2]), v[3]) : v \in {SortedZ(t)}})

\* a "sort" that leaves the list as it is
keep_order(s) == s

\* a sort that puts a triangle before those of equal key that preceded it
RECURSIVE sort_by_unstable(_)
sort_by_unstable(s) ==
    Once({IF Len(v) <= 1 THEN v
          ELSE Once({LET t == v[Len(v)]
                         n == Cardinality({i \in 1..Len(init_part) :
                                              RLt(ZKey(init_part[i]), ZKey(t))})
                     IN  SubSeq(init_part, 1, n) \o <<t>> \o
                         SubSeq(init_part, n + 1, Len(init_part)) :
                     init_part \in {sort_by_unstable(SubSeq(v, 1, Len(v) - 1))}}) : v \in {s}})

\* slice::sort_by with the comparator of sorted(): a stable sort on ZKey
RECURSIVE sort_by(_)
sort_by(s) ==
    Once({IF Len(v) <= 1 THEN v
          ELSE Once({LET t == v[Len(v)]
                         n == Cardinality({i \in 1..Len(init_part) :
                                              RLe(ZKey(init_part[i]), ZKey(t))})
                     IN  SubSeq(init_part, 1, n) \o <<t>> \o
                         SubSeq(init_part, n + 1, Len(init_part)) :
                     init_part \in {sort_by(SubSeq(v, 1, Len(v) - 1))}}) : v \in {s}})

\* MyCamera::sorted: the buffer, sorted in place
sorted(c) == [c EXCEPT !.triangles = sort_by(@)]

\* a clear that leaves the buffer as it is
clear_nothing(c) == c

\* MyCamera::clear
clear(c) == [c EXCEPT !.triangles = <<>>]

\* a while loop that clips the last candidate only and drops the others
clip_last_only(plane, clipped_triangles, temp_buffer) ==
    IF clipped_triangles = <<>> THEN temp_buffer
    ELSE temp_buffer \o clip(plane, clipped_triangles[Len(clipped_triangles)])

\* the inner while loop of project for one plane: the candidates are taken
\* from the end of the list, their clip results appended to temp_buffer
RECURSIVE clip_candidates(_, _, _)
clip_candidates(plane, clipped_triangles, temp_buffer) ==
    Once({IF list = <<>> THEN buf
          ELSE clip_candidates(p, SubSeq(list, 1, Len(list) - 1),
                               buf \o clip(p, list[Len(list)])) :
          p \in {plane}, list \in {clipped_triangles}, buf \in {temp_buffer}})

\* a loop over the clip planes that clips nothing
clip_nothing(planes, clipped_triangles, i) == clipped_triangles

\* the loop over the clip planes, from plane i on; after the swap the
\* candidates are the results and temp_buffer is empty
RECURSIVE clip_all(_, _, _)
clip_all(planes, clipped_triangles, i) ==
    Once({IF n > Len(ps) THEN list
          ELSE clip_all(ps, clip_candidates(ps[n], list, <<>>), n + 1) :
          ps \in {planes}, list \in {clipped_triangles}, n \in {i}})

\* |dot| of project, as its square: the shade 0.3 * |dot| + 0.7 is a function
\* of it.  normal and dir stand for unit vectors (or are zero).
FacingSq(normal, dir) ==
    Once({IF n = ZeroVec \/ d = ZeroVec THEN Zero
          ELSE RDiv(RMul(dot(n, d), dot(n, d)), RMul(sqr_abs(n), sqr_abs(d))) :
          n \in {normal}, d \in {dir}})
ambient_color(color, facing) == <<color[1], facing>>

\* the loop over the clipped triangles of one source triangle: multiply by
\* sp, divide each point by its own w, push.  b is [triangles, fatal].
RECURSIVE push_projected(_, _, _, _, _)
push_projected(b, sp_, clipped_triangles, facing, k) ==
    Once({IF n > Len(list) \/ buf.fatal # "none" THEN buf
          ELSE Once({IF \E j \in 1..3 : DivPanics(cp_points[j][4])
                         THEN [buf EXCEPT !.fatal = "Trying to div by 0"]
                     ELSE push_projected(
                              [buf EXCEPT !.triangles = Append(@,
                                  Triangle(ambient_color(list[n].color, f),
                                           V4Div(cp_points[1], cp_points[1][4]),
                                           V4Div(cp_points[2], cp_points[2][4]),
                                           V4Div(cp_points[3], cp_points[3][4])))],
                              m, list, f, n + 1) :
                     cp_points \in {TriMul(list[n], m).points}}) :
          buf \in {b}, m \in {sp_}, list \in {clipped_triangles}, f \in {facing}, n \in {k}})

\* the loop of project over the triangles of the mesh, from triangle i on
RECURSIVE project_triangles(_, _, _, _, _, _)
project_triangles(b, c, position, tris, mv, i) ==
    Once({IF n > Len(list) \/ buf.fatal # "none" THEN buf
          ELSE Once({project_triangles(
                         push_projected(buf, self.sp,
                             clip_all(self.clip_planes, <<TriMul(m_tri, m[2])>>, 1),
                             FacingSq(m_tri.normal,
                                      normalized(VSub(from_vec4d(m_tri.points[1]), pos))),
                             1),
                         self, pos, list, m, n + 1) :
                     m_tri \in {TriMul(list[n], m[1])}}) :
          buf \in {b}, self \in {c}, pos \in {position}, list \in {tris}, m \in {mv},
          n \in {i}})

\* a project that does not look at the visible flag
project_hidden_too(c, camObj, mesh, meshObj) ==
    Once({[triangles |-> b.triangles, fatal |-> b.fatal, ret |-> b.triangles] :
          b \in {project_triangles([triangles |-> c.triangles, fatal |-> "none"], c,
                                    camObj.position, mesh.triangles,
                                    <<model(meshObj), inv_model(camObj)>>, 1)}})

\* a project that returns only the triangles of the mesh just projected
project_returns_appended(c, camObj, mesh, meshObj) ==
    IF ~mesh.visible THEN [triangles |-> c.triangles, fatal |-> "none", ret |-> <<>>]
    ELSE Once({[triangles |-> b.triangles, fatal |-> b.fatal,
                ret |-> SubSeq(b.triangles, Len(c.triangles) + 1, Len(b.triangles))] :
               b \in {project_triangles([triangles |-> c.triangles, fatal |-> "none"], c,
                                         camObj.position, mesh.triangles,
                                         <<model(meshObj), inv_model(camObj)>>, 1)}})

\* MyCamera::project: [triangles (the buffer afterwards), fatal, ret (the
\* list returned)]
project(c, camObj, mesh, meshObj) ==
    IF ~mesh.visible THEN [triangles |-> c.triangles, fatal |-> "none", ret |-> <<>>]
    ELSE Once({[triangles |-> b.triangles, fatal |-> b.fatal, ret |-> b.triangles] :
               b \in {project_triangles([triangles |-> c.triangles, fatal |-> "none"], c,
                                         camObj.position, mesh.triangles,
                                         <<model(meshObj), inv_model(camObj)>>, 1)}})

(***************************************************************************)
(* State                                                                   *)
(***************************************************************************)
VARIABLES
    objs,         \* the objects ever created: id -> Object fields and liveness
    fatal,        \* "none", or the panic that ended the program
    op,           \* the last call made: [name, x (receiver), y (child), t (tag)]
    moves,        \* the number of translate / rotate / scale / transform calls made
    cube,         \* the Mesh part of the cube: [color, triangles, visible]
    triangles,    \* MyCamera.triangles, the per-frame buffer
    clip_planes,  \* MyCamera.clip_planes
    aspect,       \* MyCamera.aspect
    sp,           \* MyCamera.sp
    ret,          \* the list the last call returned, if it was project or sorted
    before,       \* the buffer as the last call found it, if it was project or sorted
    projects,     \* the number of project calls made since the buffer was last cleared
    cPlane,       \* Plane::clip applied on its own: the plane,
    cTri,         \*   the triangle,
    cOut,         \*   the list returned,
    cPc,          \*   whether clip has run ("input", "clipped"),
    cCalls        \*   and the calls it made to Plane::intersection: <<start, end, res, k>>

sceneVars == <<objs, fatal, op, moves>>
camVars == <<cube, triangles, clip_planes, aspect, sp, ret, before, projects>>
clipVars == <<cPlane, cTri, cOut, cPc, cCalls>>
vars == <<objs, fatal, op, moves, cube, triangles, clip_planes, aspect, sp, ret, before, projects,
          cPlane, cTri, cOut, cPc, cCalls>>

\* a macroquad Color: its name and the lighting applied to it (-1: none)
Color(name) == <<name, R(-1)>>
RED == Color("RED")

(***************************************************************************)
(* Plane::clip as a function of its inputs                                 *)
(***************************************************************************)
\* largest |z| of a vertex handed to clip
MaxZ == 1
ClipPoints == {V4(x, y, z, 1) : x \in {0, 1}, y \in {0, 1}, z \in -MaxZ..MaxZ}
ClipTriangles == {Triangle(RED, p, q, r) : p \in ClipPoints, q \in ClipPoints, r \in ClipPoints}
\* a near plane, a far plane and a slanted side plane
ClipPlaneSet ==
    {Plane(V3(0, 0, 1), V3(0, 0, 0)), Plane(V3(0, 0, -1), V3(0, 0, 0)),
     Plane(V3(-1, 0, 2), V3(0, 0, 0))}

ClipIdle ==
    /\ cPlane = Plane(V3(0, 0, 1), V3(0, 0, 0))
    /\ cTri = Triangle(RED, V4(0, 0, 0, 1), V4(0, 0, 0, 1), V4(0, 0, 0, 1))
    /\ cOut = <<>>
    /\ cPc = "idle"
    /\ cCalls = <<>>

Call(name, x, y, t) == [name |-> name, x |-> x, y |-> y, t |-> t]

SceneIdle ==
    /\ objs = [x \in ObjIds |-> Unborn]
    /\ fatal = "none"
    /\ op = Call("none", 0, 0, "")
    /\ moves = 0

CamIdle ==
    /\ cube = [color |-> RED, triangles |-> <<>>, visible |-> TRUE]
    /\ triangles = MyCamera.triangles
    /\ clip_planes = MyCamera.clip_planes
    /\ aspect = MyCamera.aspect
    /\ sp = MyCamera.sp
    /\ ret = <<>>
    /\ before = <<>>
    /\ projects = 0

ClipInit ==
    /\ cPlane \in ClipPlaneSet
    /\ cTri \in ClipTriangles
    /\ cOut = <<>>
    /\ cCalls = <<>>
    /\ cPc = "input"
    /\ SceneIdle
    /\ CamIdle

DoClip ==
    /\ cPc = "input"
    /\ cOut' = clip(cPlane, cTri)
    /\ \E args \in {intersection_args(PointsWhere(cPlane, cTri, TRUE),
                                       PointsWhere(cPlane, cTri, FALSE))} :
        cCalls' = [n \in 1..Len(args) |->
                      <<args[n][1], args[n][2]>> \o intersection(cPlane, args[n][1], args[n][2])]
    /\ cPc' = "clipped"
    /\ UNCHANGED <<cPlane, cTri, sceneVars, camVars>>

ClipNext == DoClip
SpecClip == ClipInit /\ [][ClipNext]_vars

(***************************************************************************)
(* Claims about Plane::clip (SpecClip)                                     *)
(***************************************************************************)
CP(i) == from_vec4d(cTri.points[i])
\* the indices of the vertices at signed distance >= 0, and the others
InsideIdx == {i \in 1..3 : ~RLt(distance(cPlane, CP(i)), Zero)}
OutsideIdx == (1..3) \ InsideIdx
MinOf(S) == CHOOSE i \in S : \A j \in S : i <= j
MaxOf(S) == CHOOSE i \in S : \A j \in S : j <= i
\* q is the point where the edge from a (inside) to b (outside) meets the plane
OnEdge(q, a, b) ==
    /\ q[4] = One
    /\ distance(cPlane, from_vec4d(q)) = Zero
    /\ cross(VSub(from_vec4d(q), a), VSub(b, a)) = ZeroVec
    /\ RGe(dot(VSub(from_vec4d(q), a), VSub(b, a)), Zero)
    /\ RLe(dot(VSub(from_vec4d(q), a), VSub(b, a)), sqr_abs(VSub(b, a)))

\* C6: clip counts a vertex as inside iff its signed distance is >= 0, and the
\* list it returns is fixed by the number n of inside vertices: empty for n = 0;
\* for n = 1 one triangle (inside, cut towards the first outside vertex, cut
\* towards the second); for n = 2 the two triangles (inside0, cut0, inside1) and
\* (cut0, cut1, inside1); for n = 3 the input triangle itself.
C6_ClipCases ==
    cPc = "clipped" =>
        LET n == Cardinality(InsideIdx)
        IN  /\ n = 0 => cOut = <<>>
            /\ n = 3 => cOut = <<cTri>>
            /\ n = 1 =>
                LET i == MinOf(InsideIdx)
                    o1 == MinOf(OutsideIdx)
                    o2 == MaxOf(OutsideIdx)
                IN  /\ Len(cOut) = 1
                    /\ cOut[1].color = cTri.color
                    /\ cOut[1].points[1] = make_point_4d(CP(i))
                    /\ OnEdge(cOut[1].points[2], CP(i), CP(o1))
                    /\ OnEdge(cOut[1].points[3], CP(i), CP(o2))
            /\ n = 2 =>
                LET i1 == MinOf(InsideIdx)
                    i2 == MaxOf(InsideIdx)
                    o == MinOf(OutsideIdx)
                IN  /\ Len(cOut) = 2
                    /\ cOut[1].color = cTri.color /\ cOut[2].color = cTri.color
                    /\ cOut[1].points[1] = make_point_4d(CP(i1))
                    /\ OnEdge(cOut[1].points[2], CP(i1), CP(o))
                    /\ cOut[1].points[3] = make_point_4d(CP(i2))
                    /\ cOut[2].points[1] = cOut[1].points[2]
                    /\ OnEdge(cOut[2].points[2], CP(i2), CP(o))
                    /\ cOut[2].points[3] = make_point_4d(CP(i2))

\* two inside vertices, one of them exactly on the plane, and two triangles out
C6_Witness ==
    /\ cPc = "clipped"
    /\ Cardinality(InsideIdx) = 2
    /\ \E i \in InsideIdx : distance(cPlane, CP(i)) = Zero
    /\ Len(cOut) = 2

Orientation(points) ==
    cross(from_vec4d(V4Sub(points[2], points[1])), from_vec4d(V4Sub(points[3], points[1])))
SameDirection(a, b) == cross(a, b) = ZeroVec /\ RGt(dot(a, b), Zero)

\* C7: clip preserves winding: every output triangle of non-zero area is
\* oriented as the (non-degenerate) input triangle is.
C7_ClipKeepsWinding ==
    (cPc = "clipped" /\ Orientation(cTri.points) # ZeroVec) =>
        \A k \in 1..Len(cOut) :
            Orientation(cOut[k].points) # ZeroVec =>
                SameDirection(Orientation(cOut[k].points), Orientation(cTri.points))

\* the share of the edge from vertex i to vertex j that lies on i's side of
\* the plane, by similar triangles on the two signed distances
EdgeShare(i, j) ==
    RDiv(distance(cPlane, CP(i)), RSub(distance(cPlane, CP(i)), distance(cPlane, CP(j))))

\* the share of the input triangle's area that lies in the half-space
\* distance >= 0, from the signed distances of its vertices alone
InsideShare ==
    IF Cardinality(InsideIdx) = 1
    THEN RMul(EdgeShare(MinOf(InsideIdx), MinOf(OutsideIdx)),
              EdgeShare(MinOf(InsideIdx), MaxOf(OutsideIdx)))
    ELSE RSub(One, RMul(EdgeShare(MinOf(OutsideIdx), MinOf(InsideIdx)),
                        EdgeShare(MinOf(OutsideIdx), MaxOf(InsideIdx))))

\* twice the area of output triangle k, times twice the area of the input
\* (the output lies in the input's plane)
AreaAlong(k) ==
    IF k <= Len(cOut)
    THEN RAbs(dot(Orientation(cOut[k].points), Orientation(cTri.points)))
    ELSE Zero

\* C21: for a triangle with exactly one or exactly two vertices inside, the
\* areas of the triangles clip returns add up to the area of the part of the
\* input in the half-space distance >= 0; every output vertex has distance
\* >= 0 and is an inside input vertex or a point of an input edge that joins
\* an inside vertex to an outside one.
C21_ClipKeepsInsideArea ==
    (cPc = "clipped" /\ Cardinality(InsideIdx) \in {1, 2}) =>
        /\ Len(cOut) <= 2
        /\ \A k \in 1..Len(cOut) :
            /\ cross(Orientation(cOut[k].points), Orientation(cTri.points)) = ZeroVec
            /\ Orientation(cTri.points) = ZeroVec => Orientation(cOut[k].points) = ZeroVec
            /\ \A j \in 1..3 :
                /\ RGe(distance(cPlane, from_vec4d(cOut[k].points[j])), Zero)
                /\ \/ \E i \in InsideIdx : cOut[k].points[j] = make_point_4d(CP(i))
                   \/ \E i \in InsideIdx, o \in OutsideIdx :
                          OnEdge(cOut[k].points[j], CP(i), CP(o))
        /\ RAdd(AreaAlong(1), AreaAlong(2)) =
               RMul(InsideShare, sqr_abs(Orientation(cTri.points)))

\* a triangle with two vertices strictly inside is cut into two triangles of
\* non-zero area that together are a proper part of it
C21_Witness ==
    /\ cPc = "clipped"
    /\ Cardinality(InsideIdx) = 2
    /\ Len(cOut) = 2
    /\ Orientation(cOut[1].points) # ZeroVec
    /\ Orientation(cOut[2].points) # ZeroVec
    /\ RLt(InsideShare, One)
    /\ cPlane.normal[1] # Zero

(***************************************************************************)
(* Plane::clip in rounded arithmetic (SpecRound).  An f64 is a binary       *)
(* floating-point number: every sum, difference, product and quotient is    *)
(* the exact result rounded to the nearest number with a significand of     *)
(* fixed length, ties to the even one.  The model keeps that rounding, with *)
(* a significand of MantissaBits bits instead of 53 and no limit on the     *)
(* exponent (no overflow, no underflow).                                    *)
(***************************************************************************)
\* the length of the significand
MantissaBits == 3

\* x > 0 rounded to MantissaBits significant bits: scaled by a power of two
\* into 2^(MantissaBits-1) .. 2^MantissaBits, then rounded to the nearest
\* integer, ties to even
RECURSIVE FlPos(_)
FlPos(x) ==
    IF RLt(x, R(2 ^ (MantissaBits - 1))) THEN RDiv(FlPos(RMul(x, R(2))), R(2))
    ELSE IF RGe(x, R(2 ^ MantissaBits)) THEN RMul(FlPos(RDiv(x, R(2))), R(2))
    ELSE LET q == x[1] \div x[2]
             r == x[1] % x[2]
         IN  IF 2 * r < x[2] THEN R(q)
             ELSE IF 2 * r > x[2] THEN R(q + 1)
             ELSE IF q % 2 = 0 THEN R(q) ELSE R(q + 1)

\* the f64 nearest to the real number x
Fl(x) ==
    IF x[1] = 0 THEN Zero
    ELSE IF x[1] < 0 THEN RNeg(FlPos(RNeg(x)))
    ELSE FlPos(x)

\* Vec3d::dot in f64
dot_f64(a, b) ==
    Fl(RAdd(Fl(RAdd(Fl(RMul(a[1], b[1])), Fl(RMul(a[2], b[2])))), Fl(RMul(a[3], b[3]))))

\* Plane::distance in f64
distance_f64(plane, point) ==
    Fl(RSub(dot_f64(point, plane.normal), dot_f64(plane.point, plane.normal)))

\* Plane::intersection in f64: <<res, k, the denominator>>.  A k with
\* denominator 0 stands for the NaN (0/0) or infinity (x/0) a division by 0.0
\* gives.
intersection_f64(plane, start, end) ==
    Once({Once({<<<<Fl(RAdd(start[1], Fl(RMul(Fl(RSub(end[1], start[1])), k)))),
                    Fl(RAdd(start[2], Fl(RMul(Fl(RSub(end[2], start[2])), k)))),
                    Fl(RAdd(start[3], Fl(RMul(Fl(RSub(end[3], start[3])), k))))>>,
                  k, den>> :
                k \in {IF den # Zero THEN Fl(RDiv(num, den))
                       ELSE IF num = Zero THEN <<0, 0>> ELSE <<1, 0>>}}) :
          num \in {Fl(RSub(dot_f64(start, plane.normal),
                           dot_f64(plane.point, plane.normal)))},
          den \in {Fl(RSub(dot_f64(start, plane.normal), dot_f64(end, plane.normal)))}})

\* inside_points and outside_points, with a vertex at distance 0 outside
PointsWhere_strict_f64(plane, tri, inside) ==
    LET P(i) == from_vec4d(tri.points[i])
        Pick(i) == IF RGt(distance_f64(plane, P(i)), Zero) = inside THEN <<P(i)>> ELSE <<>>
    IN  Pick(1) \o Pick(2) \o Pick(3)

\* inside_points (or outside_points) of clip: distances[i] >= 0.0
PointsWhere_f64(plane, tri, inside) ==
    LET P(i) == from_vec4d(tri.points[i])
        Pick(i) == IF RGe(distance_f64(plane, P(i)), Zero) = inside THEN <<P(i)>> ELSE <<>>
    IN  Pick(1) \o Pick(2) \o Pick(3)

\* Plane::clip in f64: [res (the list returned), calls (what each call of
\* intersection was given and returned, and the denominator of k)].
\* The normal Triangle::new computes is kept exact.
clip_f64(plane, tri) ==
    Once({Once({
        [calls |-> [n \in 1..Len(args) |-> <<args[n][1], args[n][2]>> \o intersect[n]],
         res |->
            IF Len(inside_points) = 1 THEN
                <<Triangle(tri.color, make_point_4d(inside_points[1]),
                           make_point_4d(intersect[1][1]), make_point_4d(intersect[2][1]))>>
            ELSE IF Len(inside_points) = 2 THEN
                <<Triangle(tri.color, make_point_4d(inside_points[1]),
                           make_point_4d(intersect[1][1]), make_point_4d(inside_points[2])),
                  Triangle(tri.color, make_point_4d(intersect[1][1]),
                           make_point_4d(intersect[2][1]), make_point_4d(inside_points[2]))>>
            ELSE IF Len(inside_points) = 3 THEN <<tri>>
            ELSE <<>>] :
            intersect \in {[n \in 1..Len(args) |->
                               intersection_f64(plane, args[n][1], args[n][2])]}}) :
          inside_points \in {PointsWhere_f64(plane, tri, TRUE)},
          args \in {intersection_args(PointsWhere_f64(plane, tri, TRUE),
                                      PointsWhere_f64(plane, tri, FALSE))}})

\* vertices whose coordinates are f64 values of very different size
RoundPoints == {<<R(x), Zero, z, One>> : x \in {0, 1}, z \in {R(-8), <<-1, 2>>, Zero, <<1, 2>>, R(8)}}
\* z >= 0, z <= 1/2, x >= 0: axis-parallel, so that Plane::new stores the normal as given
RoundPlanes ==
    {Plane(V3(0, 0, 1), V3(0, 0, 0)), Plane(V3(0, 0, -1), <<Zero, Zero, <<1, 2>>>>),
     Plane(V3(1, 0, 0), V3(0, 0, 0))}

RoundInit ==
    /\ cPlane \in RoundPlanes
    /\ cTri \in {Triangle(RED, p, q, r) : p \in RoundPoints, q \in RoundPoints, r \in RoundPoints}
    /\ cOut = <<>>
    /\ cCalls = <<>>
    /\ cPc = "input"
    /\ SceneIdle
    /\ CamIdle

DoClipF64 ==
    /\ cPc = "input"
    /\ \E r \in {clip_f64(cPlane, cTri)} :
        /\ cOut' = r.res
        /\ cCalls' = r.calls
    /\ cPc' = "clipped"
    /\ UNCHANGED <<cPlane, cTri, sceneVars, camVars>>

RoundNext == DoClipF64
SpecRound == RoundInit /\ [][RoundNext]_vars

(***************************************************************************)
(* Claims about the calls of Plane::intersection (SpecRound)               *)
(***************************************************************************)
\* call n was given a start at distance >= 0 and an end at distance < 0, and
\* divided by a strictly positive number
OppositeSides(n) ==
    /\ RGe(distance_f64(cPlane, cCalls[n][1]), Zero)
    /\ RLt(distance_f64(cPlane, cCalls[n][2]), Zero)
    /\ distance_f64(cPlane, cCalls[n][1]) # distance_f64(cPlane, cCalls[n][2])
    /\ cCalls[n][5][2] # 0 /\ RGt(cCalls[n][5], Zero)
    /\ RGt(Fl(RSub(distance_f64(cPlane, cCalls[n][1]), distance_f64(cPlane, cCalls[n][2]))),
           Zero)
    /\ cCalls[n][4][2] # 0 /\ RGe(cCalls[n][4], Zero)

\* C23 as stated: every call clip makes to intersection passes a start at
\* signed distance >= 0 and an end at signed distance < 0, so the denominator
\* is strictly positive, the two distances differ, and 0 <= k < 1.
C23_FractionBelowOne ==
    cPc = "clipped" =>
        \A n \in 1..Len(cCalls) : OppositeSides(n) /\ RLt(cCalls[n][4], One)

\* C23, amended: every call clip makes to intersection passes a start at
\* signed distance >= 0 and an end at signed distance < 0, so the denominator
\* is strictly positive, the two distances differ, and 0 <= k <= 1 (k = 1
\* when the quotient rounds up to 1).
C23_FractionAtMostOne ==
    cPc = "clipped" =>
        /\ Len(cCalls) = (IF Len(cOut) = 1 /\ cOut # <<cTri>> THEN 2 ELSE IF Len(cOut) = 2 THEN 2 ELSE 0)
        /\ \A n \in 1..Len(cCalls) : OppositeSides(n) /\ RLe(cCalls[n][4], One)

\* clip has cut a triangle with two inside vertices: one call starts on the
\* plane (k = 0), the other has a quotient that rounds to 1
C23_Witness ==
    /\ cPc = "clipped"
    /\ Len(cOut) = 2
    /\ \E n \in 1..Len(cCalls) : cCalls[n][4] = Zero
    /\ \E n \in 1..Len(cCalls) : cCalls[n][4] = One

(***************************************************************************)
(* The scene graph (SpecScene): objects are created, attached, unattached, *)
(* moved and dropped.  A panic ends the run.                               *)
(***************************************************************************)
\* the arguments the moves are called with
Deltas == {V3(1, 2, 0)}
Turns == {<<0, 0, 1>>}
Scales == {V3(2, 2, 2)}
Pivots == {V3(1, 0, 0)}

SceneInit == SceneIdle /\ CamIdle /\ ClipIdle

Returned(world, call) ==
    \E w \in {world} :
        /\ objs' = w.objs
        /\ fatal' = w.fatal
        /\ op' = call

\* Rc::new(RefCell::new(ObjectStruct::new(ObjectNameTag::new(tag)))): the next
\* object of ids is created.  Tag names are interchangeable, so the n-th object
\* takes one of the first n tags.
Create(tag, ids) ==
    /\ fatal = "none" /\ moves = 0
    /\ \E x \in ids :
        /\ objs[x].st = "none"
        /\ \A y \in ObjIds : y < x => objs[y].st # "none"
        /\ \E k \in 1..Len(TagOrder) : k <= x /\ TagOrder[k] = tag
        /\ objs' = [objs EXCEPT ![x] = ObjectStruct(tag)]
        /\ op' = Call("new", x, 0, tag)
    /\ UNCHANGED <<fatal, moves, camVars, clipVars>>

\* the last Rc of x is dropped
Drop(x) ==
    /\ fatal = "none" /\ moves = 0
    /\ x \in Live(objs)
    /\ objs' = [objs EXCEPT ![x] = Dropped]
    /\ op' = Call("drop", x, 0, "")
    /\ UNCHANGED <<fatal, moves, camVars, clipVars>>

Attach(x, c) ==
    /\ fatal = "none" /\ moves = 0
    /\ x \in Live(objs) /\ c \in Live(objs)
    /\ Returned(attach(World(objs), x, c), Call("attach", x, c, objs[c].nametag))
    /\ UNCHANGED <<moves, camVars, clipVars>>

\* x.unattach(t); op.y is the entry that HashMap::remove found (0: none)
Unattach(x, t) ==
    /\ fatal = "none" /\ moves = 0
    /\ x \in Live(objs)
    /\ Returned(unattach(World(objs), x, t), Call("unattach", x, objs[x].attached_objects[t], t))
    /\ UNCHANGED <<moves, camVars, clipVars>>

Translate(x, dv) ==
    /\ fatal = "none" /\ moves < MaxMoves
    /\ x \in Live(objs)
    /\ Returned(translate(World(objs), x, dv, {}), Call("translate", x, 0, ""))
    /\ moves' = moves + 1
    /\ UNCHANGED <<camVars, clipVars>>

Rotate(x, r) ==
    /\ fatal = "none" /\ moves < MaxMoves
    /\ x \in Live(objs)
    /\ Returned(rotate(World(objs), x, r), Call("rotate", x, 0, ""))
    /\ moves' = moves + 1
    /\ UNCHANGED <<camVars, clipVars>>

Scale(x, sv) ==
    /\ fatal = "none" /\ moves < MaxMoves
    /\ x \in Live(objs)
    /\ Returned(scale_object(World(objs), x, sv), Call("scale", x, 0, ""))
    /\ moves' = moves + 1
    /\ UNCHANGED <<camVars, clipVars>>

TransformRelativePoint(x, point, r) ==
    /\ fatal = "none" /\ moves < MaxMoves
    /\ x \in Live(objs)
    /\ Returned(transform_relative_point(World(objs), x, point, rotation(r), {}),
                Call("transform_relative_point", x, 0, ""))
    /\ moves' = moves + 1
    /\ UNCHANGED <<camVars, clipVars>>

RotateRelativePoint(x, point, r) ==
    /\ fatal = "none" /\ moves < MaxMoves
    /\ x \in Live(objs)
    /\ Returned(rotate_relative_point(World(objs), x, point, r),
                Call("rotate_relative_point", x, 0, ""))
    /\ moves' = moves + 1
    /\ UNCHANGED <<camVars, clipVars>>

RotateLeft(x, rl) ==
    /\ fatal = "none" /\ moves < MaxMoves
    /\ x \in Live(objs)
    /\ Returned(rotate_left(World(objs), x, rl), Call("rotate_left", x, 0, ""))
    /\ moves' = moves + 1
    /\ UNCHANGED <<camVars, clipVars>>

RotateUp(x, ru) ==
    /\ fatal = "none" /\ moves < MaxMoves
    /\ x \in Live(objs)
    /\ Returned(rotate_up(World(objs), x, ru), Call("rotate_up", x, 0, ""))
    /\ moves' = moves + 1
    /\ UNCHANGED <<camVars, clipVars>>

RotateLookAt(x, rla) ==
    /\ fatal = "none" /\ moves < MaxMoves
    /\ x \in Live(objs)
    /\ Returned(rotate_look_at(World(objs), x, rla), Call("rotate_look_at", x, 0, ""))
    /\ moves' = moves + 1
    /\ UNCHANGED <<camVars, clipVars>>

RotateAroundVec(x, v, rv) ==
    /\ fatal = "none" /\ moves < MaxMoves
    /\ x \in Live(objs)
    /\ Returned(rotate_around_vec(World(objs), x, v, rv), Call("rotate_around_vec", x, 0, ""))
    /\ moves' = moves + 1
    /\ UNCHANGED <<camVars, clipVars>>

RotateToAngle(x, angle) ==
    /\ fatal = "none" /\ moves < MaxMoves
    /\ x \in Live(objs)
    /\ Returned(rotate_to_angle(World(objs), x, angle), Call("rotate_to_angle", x, 0, ""))
    /\ moves' = moves + 1
    /\ UNCHANGED <<camVars, clipVars>>

\* The scene is set up (objects created, attached, unattached, dropped), as
\* main does before its loop.
GraphNext ==
    \/ \E t \in Tags : Create(t, ObjIds)
    \/ \E x \in ObjIds : Drop(x)
    \/ \E x, c \in ObjIds : Attach(x, c)
    \/ \E x \in ObjIds, t \in Tags : Unattach(x, t)

SpecGraph == SceneInit /\ [][GraphNext]_vars

\* The scene is set up and then moved, as main's loop does.  Three objects:
\* the smallest scene in which an object is attached along two paths.
SceneIds == {1, 2, 3}
SceneNext ==
    \/ \E t \in Tags : Create(t, SceneIds)
    \/ \E x \in ObjIds : Drop(x)
    \/ \E x, c \in ObjIds : Attach(x, c)
    \/ \E x \in ObjIds, t \in Tags : Unattach(x, t)
    \/ \E x \in ObjIds, dv \in Deltas : Translate(x, dv)
    \/ \E x \in ObjIds, r \in Turns : Rotate(x, r)
    \/ \E x \in ObjIds, sv \in Scales : Scale(x, sv)
    \/ \E x \in ObjIds, pt \in Pivots, r \in Turns : TransformRelativePoint(x, pt, r)

SpecScene == SceneInit /\ [][SceneNext]_vars

\* Two objects, attached or not, are moved and turned by every method that
\* touches an angle tracker.  Angles are counted in quarter turns.
Angles == {1}
Targets == {<<1, 0, 2>>}
TurnNext ==
    \/ \E t \in Tags : Create(t, {1, 2})
    \/ \E x, c \in ObjIds : Attach(x, c)
    \/ \E x \in ObjIds, dv \in Deltas : Translate(x, dv)
    \/ \E x \in ObjIds, r \in Turns : Rotate(x, r)
    \/ \E x \in ObjIds, pt \in Pivots, r \in Turns : RotateRelativePoint(x, pt, r)
    \/ \E x \in ObjIds, a \in Angles : RotateLeft(x, a)
    \/ \E x \in ObjIds, a \in Angles : RotateUp(x, a)
    \/ \E x \in ObjIds, a \in Angles : RotateLookAt(x, a)
    \/ \E x \in ObjIds, t \in Targets : RotateToAngle(x, t)

SpecTurn == SceneInit /\ [][TurnNext]_vars

\* Two objects, attached or not, and every method that moves, turns or scales
\* an object; the matrices are rotations and scalings.
Axes == {V3(0, 1, 0)}
MoveNext ==
    \/ \E t \in Tags : Create(t, {1, 2})
    \/ \E x, c \in ObjIds : Attach(x, c)
    \/ \E x \in ObjIds, dv \in Deltas : Translate(x, dv)
    \/ \E x \in ObjIds, r \in Turns : Rotate(x, r)
    \/ \E x \in ObjIds, sv \in Scales : Scale(x, sv)
    \/ \E x \in ObjIds, v \in Axes, a \in Angles : RotateAroundVec(x, v, a)
    \/ \E x \in ObjIds, a \in Angles : RotateLeft(x, a)
    \/ \E x \in ObjIds, a \in Angles : RotateUp(x, a)
    \/ \E x \in ObjIds, a \in Angles : RotateLookAt(x, a)
    \/ \E x \in ObjIds, pt \in Pivots, r \in Turns : RotateRelativePoint(x, pt, r)
    \/ \E x \in ObjIds, pt \in Pivots, r \in Turns : TransformRelativePoint(x, pt, r)

SpecMove == SceneInit /\ [][MoveNext]_vars

(***************************************************************************)
(* The camera pipeline (SpecCam): a camera (object 1) and a cube (object   *)
(* 2), as main.rs sets them up.  The cube and the camera are moved and the *)
(* camera initialised while the buffer is empty; project, sorted and clear *)
(* then run the frame.  A panic ends the run.                              *)
(***************************************************************************)
\* init is called at most MaxInits times
MaxInits == 2
\* project is called at most MaxProjects times between two clears
MaxProjects == 2
\* the cube is moved to depth 0..MaxDepth and sideways to 0..MaxSide, the
\* camera back to -MaxBack..0
MaxDepth == 2
MaxSide == 1
MaxBack == 1
\* the arguments of init: width and height, znear, zfar (fov is 90)
Screens == {<<4, 2>>}
Nears == {R(-1), R(3)}
Fars == {R(5)}
CameraId == 1
CubeId == 2

Camera == [triangles |-> triangles, clip_planes |-> clip_planes, aspect |-> aspect, sp |-> sp]
SetCamera(camera) ==
    \E c \in {camera} :
        /\ triangles' = c.triangles
        /\ clip_planes' = c.clip_planes
        /\ aspect' = c.aspect
        /\ sp' = c.sp

CamInit ==
    /\ objs = [x \in ObjIds |->
                  IF x = CameraId THEN ObjectStruct("Camera")
                  ELSE IF x = CubeId THEN ObjectStruct("Cube") ELSE Unborn]
    /\ fatal = "none"
    /\ op = Call("none", 0, 0, "")
    /\ moves = 0
    /\ cube = Cube(R(2), RED)
    /\ triangles = MyCamera.triangles
    /\ clip_planes = MyCamera.clip_planes
    /\ aspect = MyCamera.aspect
    /\ sp = MyCamera.sp
    /\ ret = <<>>
    /\ before = <<>>
    /\ projects = 0
    /\ ClipIdle

\* camera.init(width, height, 90.0, znear, zfar)
Initialise(screen, znear, zfar) ==
    /\ fatal = "none"
    /\ triangles = <<>>
    /\ Len(clip_planes) < 6 * MaxInits
    /\ SetCamera(init(Camera, screen[1], screen[2], 90, znear, zfar))
    /\ op' = Call("init", CameraId, 0, "")
    /\ ret' = <<>> /\ before' = <<>>
    /\ UNCHANGED <<objs, fatal, moves, cube, projects, clipVars>>

\* cube.translate(dv) towards +z or +x
MoveCube(dv) ==
    /\ fatal = "none"
    /\ triangles = <<>>
    /\ LET pos == VAdd(objs[CubeId].position, dv)
       IN  RLe(pos[3], R(MaxDepth)) /\ RLe(pos[1], R(MaxSide))
    /\ Returned(translate(World(objs), CubeId, dv, {}), Call("translate", CubeId, 0, ""))
    /\ ret' = <<>> /\ before' = <<>>
    /\ UNCHANGED <<moves, cube, triangles, clip_planes, aspect, sp, projects, clipVars>>

\* camera.translate(dv) towards -z
MoveCamera(dv) ==
    /\ fatal = "none"
    /\ triangles = <<>>
    /\ RGe(VAdd(objs[CameraId].position, dv)[3], R(-MaxBack))
    /\ Returned(translate(World(objs), CameraId, dv, {}), Call("translate", CameraId, 0, ""))
    /\ ret' = <<>> /\ before' = <<>>
    /\ UNCHANGED <<moves, cube, triangles, clip_planes, aspect, sp, projects, clipVars>>

\* *cube.visible_mut() = v
SetVisible(v) ==
    /\ fatal = "none"
    /\ cube.visible # v
    /\ cube' = [cube EXCEPT !.visible = v]
    /\ op' = Call("visible_mut", CubeId, 0, "")
    /\ ret' = <<>> /\ before' = <<>>
    /\ UNCHANGED <<objs, fatal, moves, triangles, clip_planes, aspect, sp, projects, clipVars>>

\* camera.project(cube)
Project ==
    /\ fatal = "none"
    /\ projects < MaxProjects
    /\ \E r \in {project(Camera, objs[CameraId], cube, objs[CubeId])} :
           /\ triangles' = r.triangles
           /\ fatal' = r.fatal
           /\ ret' = r.ret
    /\ before' = triangles
    /\ projects' = projects + 1
    /\ op' = Call("project", CameraId, CubeId, "")
    /\ UNCHANGED <<objs, moves, cube, clip_planes, aspect, sp, clipVars>>

\* camera.sorted()
Sorted ==
    /\ fatal = "none"
    /\ SetCamera(sorted(Camera))
    /\ ret' = triangles'
    /\ before' = triangles
    /\ op' = Call("sorted", CameraId, 0, "")
    /\ UNCHANGED <<objs, fatal, moves, cube, projects, clipVars>>

\* camera.clear()
Clear ==
    /\ fatal = "none"
    /\ SetCamera(clear(Camera))
    /\ ret' = <<>> /\ before' = <<>>
    /\ projects' = 0
    /\ op' = Call("clear", CameraId, 0, "")
    /\ UNCHANGED <<objs, fatal, moves, cube, clipVars>>

CamNext ==
    \/ \E screen \in Screens, znear \in Nears, zfar \in Fars : Initialise(screen, znear, zfar)
    \/ \E dv \in {V3(0, 0, 1), V3(1, 0, 0)} : MoveCube(dv)
    \/ MoveCamera(V3(0, 0, -1))
    \/ \E v \in BOOLEAN : SetVisible(v)
    \/ Project
    \/ Sorted
    \/ Clear
SpecCam == CamInit /\ [][CamNext]_vars

(***************************************************************************)
(* Claims about the camera (SpecCam)                                       *)
(***************************************************************************)
\* C8: project of a mesh whose visible flag is false returns the empty list
\* and leaves the buffer, the clip planes and sp as they were, whatever the
\* buffer holds.
C8_HiddenMeshSkipped ==
    [][(op'.name = "project" /\ ~cube.visible) =>
        /\ ret' = <<>>
        /\ fatal' = "none"
        /\ UNCHANGED <<triangles, clip_planes, sp>>
    ]_vars

\* project has returned for the hidden cube, with a buffer that holds triangles
C8_Witness ==
    /\ op.name = "project"
    /\ ~cube.visible
    /\ ret = <<>>
    /\ Len(clip_planes) >= 6
    /\ Len(triangles) >= 12

\* a vertex of the mesh as the clip planes meet it: in camera space
CameraSpace(p) == from_vec4d(MatVec4(inv_model(objs[CameraId]), MatVec4(model(objs[CubeId]), p)))
\* every vertex of the cube is at distance >= 0 from every clip plane
AllInside ==
    \A i \in 1..Len(cube.triangles), j \in 1..3, k \in 1..Len(clip_planes) :
        RGe(distance(clip_planes[k], CameraSpace(cube.triangles[i].points[j])), Zero)
\* triangle i of the cube has a vertex on either side of plane k
Straddles(i, k) ==
    /\ \E j \in 1..3 : RGe(distance(clip_planes[k], CameraSpace(cube.triangles[i].points[j])), Zero)
    /\ \E j \in 1..3 : RLt(distance(clip_planes[k], CameraSpace(cube.triangles[i].points[j])), Zero)
\* triangle i of the cube has all its vertices outside plane k
Outside(i, k) ==
    \A j \in 1..3 : RLt(distance(clip_planes[k], CameraSpace(cube.triangles[i].points[j])), Zero)
RECURSIVE Pow2(_)
Pow2(n) == IF n = 0 THEN 1 ELSE 2 * Pow2(n - 1)
\* what triangle i can contribute at most: nothing when a plane has it
\* outside, else one triangle doubled by every plane that cuts it
MostFrom(i) ==
    IF \E k \in 1..Len(clip_planes) : Outside(i, k) THEN 0
    ELSE Pow2(Cardinality({k \in 1..Len(clip_planes) : Straddles(i, k)}))
RECURSIVE MostUpTo(_)
MostUpTo(i) == IF i = 0 THEN 0 ELSE MostFrom(i) + MostUpTo(i - 1)
\* sorted() is called on what one project of the visible cube has put into
\* the empty buffer of an initialised camera
SortsOneProjection ==
    /\ op.name = "project" /\ projects = 1 /\ before = <<>> /\ fatal = "none"
    /\ cube.visible
    /\ Len(clip_planes) >= 6
    /\ op'.name = "sorted"

\* C9 (as claimed): from an empty buffer on an initialised camera, project of
\* the cube followed by sorted yields exactly 12 triangles when every cube
\* vertex is inside all the frustum planes, and never more than 12 when the
\* frustum clips the cube.
C9_AtMostTwelve ==
    [][SortsOneProjection =>
        IF AllInside THEN Len(ret') = 12 ELSE Len(ret') <= 12
    ]_vars

\* C9 (amended): ... exactly 12 triangles when every cube vertex is inside all
\* the frustum planes; when the frustum clips the cube, a cube triangle that
\* some plane has wholly outside yields none and any other yields at most one
\* triangle doubled by each plane that cuts it, so the total can exceed 12.
C9_TwelveWhenInside ==
    [][SortsOneProjection =>
        IF AllInside THEN Len(ret') = 12 ELSE Len(ret') <= MostUpTo(Len(cube.triangles))
    ]_vars

\* the near plane cuts the cube in two: sorted has returned 14 triangles
C9_Witness ==
    /\ op.name = "sorted"
    /\ projects = 1
    /\ fatal = "none"
    /\ Len(clip_planes) >= 6
    /\ ~AllInside
    /\ Len(ret) = 14

\* the triangles of a and of b are the same, each as many times
Occurrences(s, e) == Cardinality({i \in 1..Len(s) : s[i] = e})
Permutation(a, b) ==
    /\ Len(a) = Len(b)
    /\ \A i \in 1..Len(a) : Occurrences(a, a[i]) = Occurrences(b, a[i])
ZSum(t) == RAdd(RAdd(t.points[1][3], t.points[2][3]), t.points[3][3])

\* C10: sorted() returns the buffer, which holds afterwards the triangles it
\* held before (each as many times), with z0 + z1 + z2 non-decreasing from
\* each triangle to the next.
C10_SortedByZSum ==
    [][op'.name = "sorted" =>
        /\ ret' = triangles'
        /\ Permutation(triangles', triangles)
        /\ \A k \in 1..(Len(triangles') - 1) :
               RLe(ZSum(triangles'[k]), ZSum(triangles'[k + 1]))
    ]_vars

\* sorted has reordered a buffer of two projections of the cube
C10_Witness ==
    /\ op.name = "sorted"
    /\ Len(before) >= 24
    /\ before # triangles
    /\ ret = triangles

\* the triangles of s whose z0 + z1 + z2 is key, in their order in s
WithKey(s, key) ==
    LET HasKey(t) == ZSum(t) = key
    IN  SelectSeq(s, HasKey)

\* C11: sorted() is stable: the triangles of equal z-sum stand in the buffer
\* afterwards in the order in which they stood before; and a sorted() that
\* follows a sorted() leaves the buffer as it is.
C11_SortedStable ==
    [][op'.name = "sorted" =>
        /\ \A i \in 1..Len(triangles) :
               WithKey(triangles', ZSum(triangles[i])) = WithKey(triangles, ZSum(triangles[i]))
        /\ op.name = "sorted" => triangles' = triangles
    ]_vars

\* sorted has reordered a buffer in which two different triangles have the
\* same z-sum
C11_Witness ==
    /\ op.name = "sorted"
    /\ before # triangles
    /\ \E i, j \in 1..Len(before) :
           i < j /\ before[i] # before[j] /\ ZSum(before[i]) = ZSum(before[j])

\* C12: a project made when no project has been made since the camera was
\* built or cleared (the start of a frame of main's loop) finds the buffer
\* empty, and the sorted that follows it returns exactly the triangles that
\* project put there; clear leaves the buffer empty; and no call other than
\* clear makes the buffer shorter.
C12_FrameBuffer ==
    [][/\ (op'.name = "project" /\ projects = 0) => triangles = <<>>
       /\ (op'.name = "sorted" /\ op.name = "project" /\ projects = 1) =>
              /\ before = <<>>
              /\ Permutation(ret', ret)
       /\ op'.name = "clear" => triangles' = <<>>
       /\ op'.name # "clear" => Len(triangles') >= Len(triangles)
    ]_vars

\* sorted has returned, reordered, the triangles of the one projection made
\* since the buffer was last empty
C12_Witness ==
    /\ op.name = "sorted"
    /\ fatal = "none"
    /\ projects = 1
    /\ Len(clip_planes) >= 6
    /\ Len(ret) >= 12
    /\ ret # before
    /\ Permutation(ret, before)

\* the vertices of the cube as project hands them to the clip planes and
\* to sp: homogeneous points of camera space
CameraPoints ==
    {make_point_4d(CameraSpace(cube.triangles[i].points[j])) :
        i \in 1..Len(cube.triangles), j \in 1..3}

\* C15: for the camera-space points (x, y, z, 1) of the scene and every
\* zNear and zFar, the w of projection(fov, aspect, zNear, zFar) * point is z;
\* so the w by which project divides (that of sp * point) is z, too.
C15_WIsDepth ==
    Len(clip_planes) >= 6 =>
        \A p \in CameraPoints :
            /\ \A znear \in Nears, zfar \in Fars :
                   MatVec4(projection(90, aspect, znear, zfar), p)[4] = p[3]
            /\ MatVec4(sp, p)[4] = p[3]

\* the point p lies in the viewport of the screen
InViewport(p, screen) ==
    /\ RLe(Zero, p[1]) /\ RLe(p[1], R(screen[1]))
    /\ RLe(Zero, p[2]) /\ RLe(p[2], R(screen[2]))

\* C16: on an initialised camera project does not divide by zero, and every
\* vertex of every triangle it appends has 0 <= X <= width and
\* 0 <= Y <= height.
C16_InsideViewport ==
    [][(op'.name = "project" /\ Len(clip_planes) >= 6) =>
        /\ fatal' = "none"
        /\ \A k \in (Len(triangles) + 1)..Len(triangles'), j \in 1..3 :
               \A screen \in Screens : InViewport(triangles'[k].points[j], screen)
    ]_vars

\* project has appended the triangles of a cube that the frustum cuts, to a
\* buffer that held triangles; they reach points left and right of the
\* viewport's middle
C16_Witness ==
    /\ op.name = "project"
    /\ fatal = "none"
    /\ Len(clip_planes) >= 6
    /\ ~AllInside
    /\ before # <<>>
    /\ Len(triangles) > Len(before) + 12
    /\ \E k, l \in (Len(before) + 1)..Len(triangles), j \in 1..3 :
           RLt(triangles[k].points[j][1], R(2)) /\ RLt(R(2), triangles[l].points[j][1])

\* C17: after every init, the first or a later one, the clip-plane list is
\* the six planes (near, far, four sides) of that call's arguments, as on a
\* new camera, and sp is screen_space * projection for those arguments.
C17_SixPlanes ==
    [][op'.name = "init" =>
        \E screen \in Screens, znear \in Nears, zfar \in Fars :
            /\ Len(clip_planes') = 6
            /\ clip_planes' = init(MyCamera, screen[1], screen[2], 90, znear, zfar).clip_planes
            /\ sp' = MatMul(screen_space(screen[1], screen[2]),
                            projection(90, RDiv(R(screen[1]), R(screen[2])), znear, zfar))
    ]_vars

\* the concatenation of Plane::clip of each element of list, in list order
RECURSIVE ClipEach(_, _)
ClipEach(plane, list) ==
    IF list = <<>> THEN <<>> ELSE clip(plane, Head(list)) \o ClipEach(plane, Tail(list))
\* the reference fold over the clip planes, from plane k on
RECURSIVE ClipFold(_, _)
ClipFold(list, k) ==
    IF k > Len(clip_planes) THEN list ELSE ClipFold(ClipEach(clip_planes[k], list), k + 1)
\* triangle i of the mesh in world space, and its facing dot product up to a
\* positive factor
WorldTriangle(i) == TriMul(cube.triangles[i], model(objs[CubeId]))
FacingDot(i) ==
    dot(WorldTriangle(i).normal,
        VSub(from_vec4d(WorldTriangle(i).points[1]), objs[CameraId].position))
\* what project makes of a clipped triangle of source triangle i
Image(i, clipped) ==
    Once({Triangle(ambient_color(clipped.color,
                       FacingSq(WorldTriangle(i).normal,
                                normalized(VSub(from_vec4d(WorldTriangle(i).points[1]),
                                                objs[CameraId].position)))),
                   V4Div(cp_points[1], cp_points[1][4]),
                   V4Div(cp_points[2], cp_points[2][4]),
                   V4Div(cp_points[3], cp_points[3][4])) :
          cp_points \in {TriMul(clipped, sp).points}})
\* the images of what the reference fold leaves of source triangle i
FoldImages(i) ==
    Once({[n \in 1..Len(list) |-> Image(i, list[n])] :
          list \in {ClipFold(<<TriMul(WorldTriangle(i), inv_model(objs[CameraId]))>>, 1)}})
\* the number of triangles in the first i lists of r
RECURSIVE LenUpTo(_, _)
LenUpTo(r, i) == IF i = 0 THEN 0 ELSE Len(r[i]) + LenUpTo(r, i - 1)
\* the triangles the last project appended for source triangle i, when r[j]
\* is what the reference fold yields for source triangle j
AppendedFor(r, i) ==
    SubSeq(triangles, Len(before) + LenUpTo(r, i - 1) + 1, Len(before) + LenUpTo(r, i))

\* C22: for every source triangle of a visible mesh, front-facing or not, the
\* triangles project appends for it are, as a multiset, the result of the
\* reference fold (start with the camera-space triangle; for each clip plane
\* in list order, replace the list by the concatenation of clip of each
\* element).  So a triangle wholly outside a plane contributes nothing, one
\* inside all planes contributes one, none contributes more than 64, and
\* nothing is carried over from one source triangle to the next.
C22_ClipFold ==
    (op.name = "project" /\ cube.visible /\ fatal = "none") =>
        \E r \in {[i \in 1..Len(cube.triangles) |-> FoldImages(i)]} :
            /\ Len(triangles) = Len(before) + LenUpTo(r, Len(cube.triangles))
            /\ \A i \in 1..Len(cube.triangles) :
                /\ Permutation(AppendedFor(r, i), r[i])
                /\ Len(AppendedFor(r, i)) <= 64
                /\ (\E k \in 1..Len(clip_planes) : Outside(i, k)) => AppendedFor(r, i) = <<>>
                /\ (\A k \in 1..Len(clip_planes) : ~Outside(i, k) /\ ~Straddles(i, k)) =>
                       Len(AppendedFor(r, i)) = 1

\* project has appended, to a buffer that held triangles, what the planes
\* leave of the cube: a source triangle that faces away from the camera
\* (positive dot product) is there in several pieces, in another order than
\* the reference fold's; one that faces the camera lies beyond a plane and
\* has contributed nothing; a third has contributed itself
C22_Witness ==
    /\ op.name = "project" /\ cube.visible /\ fatal = "none"
    /\ before # <<>>
    /\ \E r \in {[i \in 1..Len(cube.triangles) |-> FoldImages(i)]} :
        /\ \E i \in 1..Len(cube.triangles) :
               RGt(FacingDot(i), Zero) /\ Len(r[i]) >= 2 /\ AppendedFor(r, i) # r[i]
        /\ \E i \in 1..Len(cube.triangles) : RLt(FacingDot(i), Zero) /\ r[i] = <<>>
        /\ \E i \in 1..Len(cube.triangles) :
               /\ \A k \in 1..Len(clip_planes) : ~Outside(i, k) /\ ~Straddles(i, k)
               /\ Len(AppendedFor(r, i)) = 1

\* the camera-space triangles that survive the clip planes, of source triangle i
Survivors(i) == ClipFold(<<TriMul(WorldTriangle(i), inv_model(objs[CameraId]))>>, 1)
\* the W by which project divides vertex j of the clipped triangle
ProjectedW(clipped, j) == MatVec4(sp, clipped.points[j])[4]

\* C24: project never aborts on a division by (nearly) zero: whether init has
\* been called or not, and for every znear, znear <= 0 included, every vertex
\* of every triangle that survives clipping has a projected W away from zero
\* (1 before init, the depth plus one afterwards: at least 1), and every
\* vertex is divided by its own W (its W is 1 afterwards).
C24_NoDivideByZero ==
    /\ fatal = "none"
    /\ (op.name = "project" /\ cube.visible) =>
        /\ \A i \in 1..Len(cube.triangles) :
               \E list \in {Survivors(i)} :
                   \A n \in 1..Len(list), j \in 1..3 :
                       /\ ~DivPanics(ProjectedW(list[n], j))
                       /\ RGe(ProjectedW(list[n], j), One)
                       /\ ProjectedW(list[n], j) =
                              (IF clip_planes = <<>> THEN One ELSE RAdd(list[n].points[j][3], One))
        /\ \A k \in (Len(before) + 1)..Len(triangles), j \in 1..3 :
               triangles[k].points[j][4] = One

\* project has returned on a camera initialised with znear <= 0: a vertex
\* that survived lies at depth 0, where a W equal to the depth would be 0, and
\* the vertices of one surviving triangle have been divided by different Ws
C24_Witness ==
    /\ op.name = "project" /\ cube.visible /\ fatal = "none"
    /\ Len(clip_planes) >= 6
    /\ RLe(clip_planes[1].point[3], Zero)
    /\ Len(triangles) > Len(before)
    /\ \E i \in 1..Len(cube.triangles) :
           \E list \in {Survivors(i)} :
               /\ \E n \in 1..Len(list), j \in 1..3 : list[n].points[j][3] = Zero
               /\ \E n \in 1..Len(list) : ProjectedW(list[n], 1) # ProjectedW(list[n], 2)

\* C26: project only appends: for a visible mesh the buffer as the call found
\* it is, unchanged and in the same order, a prefix of the buffer afterwards,
\* and the list returned is the whole buffer afterwards, the triangles of
\* earlier project calls since the last clear included.
C26_ProjectAppends ==
    [][(op'.name = "project" /\ cube.visible) =>
        /\ Len(triangles') >= Len(triangles)
        /\ SubSeq(triangles', 1, Len(triangles)) = triangles
        /\ ret' = triangles'
        /\ \A k \in 1..Len(triangles) : ret'[k] = triangles[k]
    ]_vars

\* the second project of a frame has returned: the list holds the triangles
\* of the first projection, then those it added itself
C26_Witness ==
    /\ op.name = "project" /\ cube.visible /\ fatal = "none"
    /\ projects = 2
    /\ Len(before) >= 12
    /\ Len(ret) > Len(before)
    /\ SubSeq(ret, 1, Len(before)) = before
    /\ ret # SubSeq(triangles, Len(before) + 1, Len(triangles))

(***************************************************************************)
(* Claims about the scene graph                                            *)
(***************************************************************************)
\* the live objects attached to the objects of S
Children(os, S) ==
    {c \in ObjIds : os[c].st = "live" /\ \E d \in S, t \in Tags : os[d].attached_objects[t] = c}
RECURSIVE Closure(_, _, _)
Closure(os, S, n) == IF n = 0 THEN S ELSE Closure(os, S \cup Children(os, S), n - 1)
\* the live objects reachable from x through attachments, x included
Subtree(os, x) == Closure(os, {x}, MaxObjects)
\* ... and those reachable in one step or more
Descendants(os, x) == Closure(os, Children(os, {x}), MaxObjects)
\* tag is a key in the attachments of c or of an object reachable from c
TagReachable(os, c, tag) == \E d \in Subtree(os, c) : os[d].attached_objects[tag] # 0
Tag(os, x) == os[x].nametag

\* the entry of x under tag t refers to a dropped object
DeadEntry(os, x, t) ==
    os[x].attached_objects[t] # 0 /\ os[os[x].attached_objects[t]].st # "live"
\* the attachment maps with every dead entry removed
Pruned(os) ==
    [x \in ObjIds |->
        [os[x] EXCEPT !.attached_objects =
            [t \in Tags |-> IF DeadEntry(os, x, t) THEN 0 ELSE @[t]]]]
HasDeadEntry(os, x) == \E t \in Tags : DeadEntry(os, x, t)

Acyclic(os) == \A x \in Live(os) : x \notin Descendants(os, x)

\* C2: whatever attach, unattach and drop calls were made, no live object is
\* reachable from itself through live attachments, and the recursive walks
\* (translate, transform, transform_relative_point, check_if_attached) return.
C2_Acyclic ==
    /\ Acyclic(objs)
    /\ \A x \in Live(objs) :
        /\ \A dv \in Deltas : translate(World(objs), x, dv, {}).fatal = "none"
        /\ \A r \in Turns : transform(World(objs), x, rotation(r)).fatal = "none"
        /\ \A pt \in Pivots, r \in Turns :
               transform_relative_point(World(objs), x, pt, rotation(r), {}).fatal = "none"
        /\ \A t \in Tags : check_if_attached(objs, x, t, {}, {}) # "fatal"

\* a chain of two live attachments stands, the last call was an unattach
C2_Witness ==
    /\ fatal = "none"
    /\ op.name = "unattach"
    /\ \E x, y, z \in Live(objs) :
        y \in Children(objs, {x}) /\ z \in Children(objs, {y})

\* C3: translate(dv) on x adds dv, once, to the position of x and of every live
\* object reachable from x (however many paths lead to it), and to no other.
C3_TranslateOnce ==
    [][op'.name = "translate" =>
        \E dv \in Deltas : \A o \in ObjIds :
            objs'[o].position =
                IF o \in Subtree(objs, op'.x) THEN VAdd(objs[o].position, dv)
                ELSE objs[o].position
    ]_vars

\* the call op names, made in the scene os
Replay(os, call) ==
    LET dv == CHOOSE d \in Deltas : TRUE
        r == CHOOSE q \in Turns : TRUE
        sv == CHOOSE q \in Scales : TRUE
        pt == CHOOSE q \in Pivots : TRUE
    IN  CASE call.name = "translate" -> translate(World(os), call.x, dv, {})
          [] call.name = "rotate" -> rotate(World(os), call.x, r)
          [] call.name = "scale" -> scale_object(World(os), call.x, sv)
          [] call.name = "transform_relative_point" ->
                 transform_relative_point(World(os), call.x, pt, rotation(r), {})
MoveNames == {"translate", "rotate", "scale", "transform_relative_point"}

\* C4: a translate, rotate, scale or transform_relative_point made in a scene
\* that holds dead entries does not panic, and leaves every object as the same
\* call would in the scene without the dead entries (the entries themselves stay).
C4_DeadEntrySkipped ==
    [][(op'.name \in MoveNames /\ \E x \in Subtree(objs, op'.x) : HasDeadEntry(objs, x)) =>
        /\ fatal' = "none"
        /\ LET clean == Replay(Pruned(objs), op').objs
           IN  \A o \in ObjIds :
                   objs'[o] = [clean[o] EXCEPT !.attached_objects = objs[o].attached_objects]
    ]_vars

\* a parent with a dead entry and a live child standing elsewhere has been
\* rotated, and the live child has turned with it
C4_Witness ==
    /\ op.name = "rotate"
    /\ fatal = "none"
    /\ HasDeadEntry(objs, op.x)
    /\ \E c \in Children(objs, {op.x}) :
           objs[c].position # objs[op.x].position /\ objs[c].transform # identity

\* C5: once the child attached to P under tag T is dead, P.attached(T) is None,
\* P.check_if_attached(T) is false, and Y.attach(P) by a live Y tagged T panics
\* only if T is also the key of a live entry in P's subtree.
C5_DeadEntryNotAttached ==
    \A p \in Live(objs), t \in Tags :
        DeadEntry(objs, p, t) =>
            /\ attached(objs, p, t) = 0
            /\ check_if_attached(objs, p, t, {}, {}) = "no"
            /\ \A y \in Live(objs) :
                (Tag(objs, y) = t /\ Tag(objs, p) # t /\
                 ~TagReachable(Pruned(objs), p, t)) =>
                    attach(World(objs), y, p).fatal = "none"

\* the point p turned by the matrix m about the pivot
TurnedAbout(pivot, m, p) == VAdd(pivot, from_vec4d(MatVec4(m, make_point_4d(VSub(p, pivot)))))

\* C13: rotate(delta) on P, with R = rotation(delta), leaves P's position as
\* it is, multiplies P's transform by R on the right, and puts every live
\* object reachable from P at P.position + R * (its position - P.position).
C13_RotateAboutParent ==
    [][op'.name = "rotate" =>
        \E r \in Turns :
            /\ objs'[op'.x].position = objs[op'.x].position
            /\ objs'[op'.x].transform = MatMul(objs[op'.x].transform, rotation(r))
            /\ \A c \in Descendants(objs, op'.x) :
                   objs'[c].position =
                       TurnedAbout(objs[op'.x].position, rotation(r), objs[c].position)
    ]_vars

\* the linear (upper-left 3x3) part of a matrix
Linear(m) == [i \in 1..3 |-> [j \in 1..3 |-> m[i][j]]]

\* C14: transform_relative_point(point, M) leaves the callee with a transform
\* whose linear part is M's linear part times the linear part it had; and
\* called with M = identity, about any pivot, it leaves the callee's
\* transform and position as they were.
C14_AppliesToTransform ==
    [][op'.name = "transform_relative_point" =>
        /\ \E r \in Turns :
               Linear(objs'[op'.x].transform) =
                   Linear(MatMul(rotation(r), objs[op'.x].transform))
        /\ \A pt \in Pivots :
               LET o == transform_relative_point(World(objs), op'.x, pt, identity, {}).objs[op'.x]
               IN  o.transform = objs[op'.x].transform /\ o.position = objs[op'.x].position
    ]_vars

\* what attach and unattach do to the maps: a successful attach(c) on x sets
\* the one entry of c's tag to c and nothing else, and attached(tag) is then
\* c; unattach(tag) clears the entry of tag and nothing else, so that it
\* changes nothing when there is no such entry
MapByTag ==
    /\ (op'.name = "attach" /\ fatal' = "none") =>
           /\ objs' = [objs EXCEPT ![op'.x].attached_objects[Tag(objs, op'.y)] = op'.y]
           /\ attached(objs', op'.x, Tag(objs, op'.y)) = op'.y
    /\ op'.name = "unattach" =>
           /\ fatal' = "none"
           /\ objs' = [objs EXCEPT ![op'.x].attached_objects[op'.t] = 0]
           /\ objs[op'.x].attached_objects[op'.t] = 0 => objs' = objs
\* translate and rotate, called on x in the scene os, leave object c as it is
LeavesAlone(os, x, c) ==
    /\ \A dv \in Deltas : translate(World(os), x, dv, {}).objs[c] = os[c]
    /\ \A r \in Turns : rotate(World(os), x, r).objs[c] = os[c]

\* C18 (as claimed): the attachments behave as a map keyed by nametag, and
\* after unattach(tag) the parent's translate and rotate no longer change the
\* child that was attached under tag.
C18_MapByTag ==
    [][/\ MapByTag
       /\ (op'.name = "unattach" /\ Upgrades(objs, op'.y)) =>
              LeavesAlone(objs', op'.x, op'.y)
    ]_vars

\* C18 (amended): ... and after unattach(tag) the parent's translate and
\* rotate no longer change the child that was attached under tag, unless it
\* can still be reached from the parent through other attachments.
C18_MapByTagUnlessReachable ==
    [][/\ MapByTag
       /\ (op'.name = "unattach" /\ Upgrades(objs, op'.y)
               /\ op'.y \notin Descendants(objs', op'.x)) =>
              LeavesAlone(objs', op'.x, op'.y)
    ]_vars

\* unattach has removed the entry of a live child, which the parent no longer
\* reaches, and has left the parent another live child
C18_Witness ==
    /\ op.name = "unattach"
    /\ fatal = "none"
    /\ Upgrades(objs, op.y)
    /\ objs[op.x].attached_objects[op.t] = 0
    /\ op.y \notin Descendants(objs, op.x)
    /\ Children(objs, {op.x}) # {}

\* the basis columns of m are unit vectors, orthogonal to one another
Orthonormal(m) ==
    /\ sqr_abs(MX(m)) = One /\ sqr_abs(MY(m)) = One /\ sqr_abs(MZ(m)) = One
    /\ dot(MX(m), MY(m)) = Zero /\ dot(MX(m), MZ(m)) = Zero /\ dot(MY(m), MZ(m)) = Zero
\* no rotation, and the quarter turn about each axis
QuarterTurns == {<<0, 0, 0>>, <<1, 0, 0>>, <<0, 1, 0>>, <<0, 0, 1>>}
\* the origin and a point on each axis
AxisPoints == {V4(0, 0, 0, 1), V4(1, 0, 0, 1), V4(0, 1, 0, 1), V4(0, 0, 1, 1)}
\* inv_model() * model() is the identity, and inv_model() takes model() * p
\* back to p
InvertsModel(o) ==
    \E m \in {model(o)}, v \in {inv_model(o)} :
        /\ MatMul(v, m) = identity
        /\ \A p \in AxisPoints : MatVec4(v, MatVec4(m, p)) = p

\* C19: for every object of the scene whose transform has orthonormal basis
\* columns, where it stands and after any further rotation of its transform,
\* inv_model() * model() is the identity and inv_model() maps model() * p
\* back to p.
C19_InvModelInverts ==
    \A x \in Live(objs) :
        Orthonormal(objs[x].transform) =>
            \A r \in QuarterTurns :
                \E o \in {[objs[x] EXCEPT !.transform = MatMul(@, rotation(r))]} :
                    InvertsModel(o)

\* an object that has been turned stands away from the origin
C19_Witness ==
    /\ op.name = "rotate"
    /\ fatal = "none"
    /\ \E x \in Live(objs) :
           /\ Orthonormal(objs[x].transform)
           /\ objs[x].transform # identity
           /\ objs[x].position # ZeroVec

\* the sum of two angle triples
AngleSum(a, b) == <<a[1] + b[1], a[2] + b[2], a[3] + b[3]>>
EulerCalls == {"rotate", "rotate_relative_point"}

\* C20: rotate and rotate_relative_point add r to the Euler angle and leave
\* the left/up/look-at tracker; rotate_left, rotate_up and rotate_look_at add
\* a to its x, y and z component and leave the Euler angle; rotate_to_angle(t)
\* leaves the Euler angle at t; translate changes neither; and no call
\* changes a tracker of another object.
C20_AngleTrackers ==
    [][LET o == objs[op'.x]
           n == objs'[op'.x]
       IN  /\ op'.name \in EulerCalls =>
                  /\ \E r \in Turns : n.angle = AngleSum(o.angle, r)
                  /\ n.angle_left_up_look_at = o.angle_left_up_look_at
           /\ op'.name = "rotate_left" =>
                  /\ \E a \in Angles :
                         n.angle_left_up_look_at = AngleSum(o.angle_left_up_look_at, <<a, 0, 0>>)
                  /\ n.angle = o.angle
           /\ op'.name = "rotate_up" =>
                  /\ \E a \in Angles :
                         n.angle_left_up_look_at = AngleSum(o.angle_left_up_look_at, <<0, a, 0>>)
                  /\ n.angle = o.angle
           /\ op'.name = "rotate_look_at" =>
                  /\ \E a \in Angles :
                         n.angle_left_up_look_at = AngleSum(o.angle_left_up_look_at, <<0, 0, a>>)
                  /\ n.angle = o.angle
           /\ op'.name = "rotate_to_angle" => n.angle \in Targets
           /\ op'.name = "translate" =>
                  n.angle = o.angle /\ n.angle_left_up_look_at = o.angle_left_up_look_at
           /\ \A c \in ObjIds \ {op'.x} :
                  /\ objs'[c].angle = objs[c].angle
                  /\ objs'[c].angle_left_up_look_at = objs[c].angle_left_up_look_at
    ]_vars

\* an object that rotate had turned has been turned by rotate_left, with a
\* live child attached: both its trackers are away from zero
C20_Witness ==
    /\ op.name = "rotate_left"
    /\ fatal = "none"
    /\ objs[op.x].angle # <<0, 0, 0>>
    /\ objs[op.x].angle_left_up_look_at # <<0, 0, 0>>
    /\ \E c \in Children(objs, {op.x}) : objs[c].transform # identity

(***************************************************************************)
(* Claims about the transform of an object (SpecMove)                      *)
(***************************************************************************)
\* C25: an object is created with the identity transform, and whatever
\* translate, rotate, scale, rotate_around_vec, rotate_left, rotate_up,
\* rotate_look_at, rotate_relative_point and transform_relative_point calls
\* are made on it or on an object it is attached to (with matrices that carry
\* no translation), the translation column w() of its transform is the zero
\* vector: position alone carries the translation, and model().w() is the
\* position.
C25_PositionCarriesTranslation ==
    \A x \in Live(objs) :
        /\ MW(objs[x].transform) = ZeroVec
        /\ MW(model(objs[x])) = objs[x].position

\* a parent has been turned about a point away from itself, and its child
\* with it: both have moved, neither is where the other is, and the child's
\* transform is no longer the identity
C25_Witness ==
    /\ op.name \in {"transform_relative_point", "rotate_relative_point"}
    /\ fatal = "none"
    /\ \E t \in Tags :
           \E c \in {objs[op.x].attached_objects[t]} :
               /\ c # 0
               /\ objs[c].st = "live"
               /\ objs[c].transform # identity
               /\ objs[c].position # ZeroVec
               /\ objs[op.x].position # ZeroVec
               /\ objs[c].position # objs[op.x].position

====
